---- MODULE Spec2Model ----
(***************************************************************************)
(* Model of the resilient step orchestration engine of the                 *)
(* Microsoft-Rewards-Bot repository:                                       *)
(*   - TotpHandler (src/src/functions/login/TotpHandler.ts): the challenge *)
(*     handler (automatic code submission, push approval, manual entry)    *)
(*     and the resolution of the code input (findFirstTotpInput,           *)
(*     isLikelyTotpInput, ensureTotpInput);                                *)
(*   - AccountCreator (src/unnamed/part_003): retryOperation, the create() *)
(*     workflow and its identifier recovery loop.                          *)
(* Each component has its own specification over the shared variables; the *)
(* variables of the other components stay at their initial values.         *)
(*                                                                         *)
(* Time.  The handler reads the clock only to compare Date.now() with the  *)
(* timestamp lastTotpSubmit, so the model keeps the age of that timestamp  *)
(* (Date.now() - lastTotpSubmit) instead of the two absolute values, and   *)
(* stops counting an age at AgeCap: no comparison of the code tells two    *)
(* ages of at least throttleMs apart.                                      *)
(***************************************************************************)
EXTENDS Integers, Sequences, FiniteSets, TLC

VARIABLES
  \* ---- TotpHandler: object fields
  sinceTotpSubmit,    \* Date.now() - this.lastTotpSubmit, capped at AgeCap
  totpAttempts,       \* private totpAttempts = 0
  currentTotpSecret,  \* private currentTotpSecret?: string
  \* ---- TotpHandler: configuration, page and operator console
  parallel,           \* this.bot.config.parallel
  codeInput,          \* ensureTotpInput(page) can resolve a code input
  displaySign,        \* '#displaySign' element: "absent", "empty" or "number"
  rl,                 \* readline interface of the manual prompt
  timer,              \* the 120 s setTimeout of the manual prompt
  \* ---- TotpHandler: position of the running call
  tOp,                \* public method running: "idle", "tryAutoTotp", "handle2FA"
  tPc,                \* position inside it
  waitLeft,           \* time left of the timed wait the call is suspended in
  tFrom,              \* caller of the running tryAutoTotp frame
  tSecret,            \* `secret` local of the tryAutoTotp frame
  fFrom,              \* caller of the running fetchAuthenticatorNumber frame
  cycle,              \* `cycle` local of approveAuthenticator
  resendAttempts,     \* `attempts` local of fetchAuthenticatorNumber
  \* ---- TotpHandler: observations of the run (not program state)
  obs,                \* what the running call did, kept until it has returned
  realSubs,           \* code submissions since the last reset()/setTotpSecret()
  sinceSubmit,        \* time since the last code submission (capped), -1 if none
  resetSince          \* reset()/setTotpSecret() ran since the last submission

fields == << sinceTotpSubmit, totpAttempts, currentTotpSecret >>
page == << codeInput, displaySign >>
frame == << tFrom, tSecret, fFrom, cycle, resendAttempts >>
prompt == << rl, timer >>
hist == << realSubs, sinceSubmit, resetSince >>
totpVars == << fields, parallel, page, prompt, tOp, tPc, waitLeft, frame, obs, hist >>

\* ---------------------------------------------------------------- bounds
TickMs == 1000     \* the amount of time one Tick lets pass

\* ------------------------------------------------------ program constants
throttleMs == 5000
MaxTotpAttempts == 3
PostSubmitWaitMs == 1200
PromptTimeoutMs == 120000
DismissWaitMs == 500
FetchFirstWaitMs == 2500
FetchSecondWaitMs == 2000
ConfirmWaitMs == 1500
ResendProbeMs == 1500
ResendWaitMs == 60000
MaxResendAttempts == 6
ApproveWaitMs == 60000
MaxApproveCycles == 6
RetryBtnWaitMs == 3000

Max(a, b) == IF a >= b THEN a ELSE b
Min(a, b) == IF a <= b THEN a ELSE b

\* Ages stop counting here.
AgeCap == throttleMs

\* The age a (-1: no such event yet) after d more milliseconds.
Aged(a, d) == IF a = -1 THEN -1 ELSE Min(a + d, AgeCap)

\* Error messages, as the words of the message text.
NoError == << >>
ErrTotpStillPresent ==
  << "totp", "challenge", "still", "present", "after", "multiple", "attempts",
     "verify", "authenticator", "secret", "or", "approvals" >>
ErrPromptTimeout == << "2fa", "code", "input", "timeout", "after", "120s" >>
ErrTyping == << "locator", "type", "failed" >>

\* error.message.includes(word)
MessageIncludes(msg, word) == \E i \in DOMAIN msg : msg[i] = word

\* ------------------------------------------------------------ TotpHandler
Undefined == "<undefined>"
TheSecret == "JBSWY3DPEHPK3PXP"
\* Values a caller may pass as a secret.
SecretInputs == { Undefined, "", "  ", TheSecret, " JBSWY3DPEHPK3PXP " }

\* JavaScript truthiness of a string-or-undefined value.
Truthy(s) == s # Undefined /\ s # ""

\* String.prototype.trim on the values above.
Trim(s) ==
  CASE s = "  " -> ""
    [] s = " JBSWY3DPEHPK3PXP " -> TheSecret
    [] OTHER -> s

\* (secret && secret.trim()) || undefined
NormalizeSecret(secret) ==
  IF Truthy(secret) /\ Truthy(Trim(secret)) THEN Trim(secret) ELSE Undefined

\* Observations of one public call: the tryAutoTotp invocations it made (tries),
\* its code submissions, the time since the previous submission at its own
\* submission (gap, -1 if none) and whether reset()/setTotpSecret() ran in
\* between (gapReset), the submissions since the last reset when it was called
\* (subsBefore), and how it ended; of reset() a mark that flips at every call
\* of it (resetMark); of approveAuthenticator the waits for the
\* login form to go away (waits), the fresh numbers requested (refreshes),
\* whether the form went away (approved) and the warning logged (warn).
NoObs == [ tries |-> << >>, subs |-> 0, gap |-> -1, gapReset |-> FALSE,
           subsBefore |-> 0, raised |-> NoError, caught |-> NoError,
           promptTimedOut |-> FALSE, answered |-> FALSE, manual |-> FALSE,
           manualTyped |-> FALSE, waits |-> 0, refreshes |-> 0,
           approved |-> FALSE, warn |-> "none", codegen |-> FALSE,
           resetMark |-> FALSE ]

TotpInit ==
  /\ sinceTotpSubmit = AgeCap
  /\ totpAttempts = 0
  /\ currentTotpSecret = Undefined
  /\ parallel \in BOOLEAN
  /\ codeInput \in BOOLEAN
  /\ displaySign \in { "absent", "empty", "number" }
  /\ rl = "none" /\ timer = "none"
  /\ tOp = "idle" /\ tPc = "none" /\ waitLeft = 0
  /\ tFrom = "none" /\ tSecret = Undefined /\ fFrom = "none"
  /\ cycle = 0 /\ resendAttempts = 0
  /\ obs = NoObs
  /\ realSubs = 0 /\ sinceSubmit = -1 /\ resetSince = FALSE

Idle == tOp = "idle"

\* d milliseconds pass.
TimePasses(d) ==
  /\ sinceTotpSubmit' = Aged(sinceTotpSubmit, d)
  /\ sinceSubmit' = Aged(sinceSubmit, d)

NoTimePasses == UNCHANGED << sinceTotpSubmit, sinceSubmit >>

\* The control state: everything a transfer of control may set.
Ctl(op, pc, wl, from, sec, ff, cy, rs, r, tm) ==
  /\ tOp' = op /\ tPc' = pc /\ waitLeft' = wl
  /\ tFrom' = from /\ tSecret' = sec /\ fFrom' = ff
  /\ cycle' = cy /\ resendAttempts' = rs
  /\ rl' = r /\ timer' = tm

\* Stay in the running frame, at position pc, suspended for wl milliseconds.
Goto(pc, wl) ==
  /\ tPc' = pc /\ waitLeft' = wl
  /\ UNCHANGED << tOp, frame, prompt >>

\* The running public call has ended; its caller has yet to take the result.
Finish(op, r, tm) == Ctl(op, "done", 0, "none", Undefined, "none", 0, 0, r, tm)

\* handle2FA's catch (lines 88-90): what handle2FA raises to its own caller when
\* error e is thrown inside its try block. The catch logs e and swallows it.
Handle2FARaises(e) == NoError

\* handle2FA ends by its catch, having caught e.
Caught(o, e) == [ o EXCEPT !.caught = e, !.raised = Handle2FARaises(e) ]

\* A throttle test that never throttles.
ThrottledNever(age) == FALSE

\* line 97: Date.now() - this.lastTotpSubmit < throttleMs
Throttled(age) == age < throttleMs

\* An attempts test that never gives up.
AttemptsExhaustedNever == FALSE

\* An attempts test that lets one more attempt through.
AttemptsExhaustedLate == totpAttempts > MaxTotpAttempts

\* line 102: this.totpAttempts >= 3
AttemptsExhausted == totpAttempts >= MaxTotpAttempts

\* One tryAutoTotp invocation as its caller saw it: the value returned, the error
\* thrown, whether a secret was available, whether the call was inside the
\* throttle window, whether the page had the code input, and whether the
\* invocation typed and submitted a code.
TryRec(o, ret, err, hasSecret, throttled) ==
  [ o EXCEPT !.tries = Append(@, [ ret |-> ret, err |-> err,
                                   hasSecret |-> hasSecret,
                                   throttled |-> throttled,
                                   input |-> codeInput,
                                   typed |-> o.subs > 0 ]) ]

\* fetchAuthenticatorNumber is entered by caller ff (line 118).
StartFetch(ff, cy) ==
  Ctl("handle2FA", "fetch_wait1", FetchFirstWaitMs, "none", Undefined, ff, cy, 0,
      "none", "none")

\* approveAuthenticator waits for the login form to go away (line 144).
StartApprove(cy) ==
  Ctl("handle2FA", "ap_wait", ApproveWaitMs, "none", Undefined, "none", cy, 0,
      "none", "none")

\* A test of usedTotp that never sees a submission.
UsedTotpIgnored(ret) == FALSE

\* `if (usedTotp) return`, lines 83 and 162
UsedTotp(ret) == ret

\* A loop test that never ends the loop.
CyclesLeftAlways(cy) == TRUE

\* The loop test of line 141 after cycle cy: cycle++, cycle < 6.
CyclesLeft(cy) == cy + 1 < MaxApproveCycles

\* tryAutoTotp, called by `from` inside public method op, has returned ret or
\* thrown err; o is the call's record so far. Lines 82-87 and 161-166.
AfterTry(op, from, ret, err, o) ==
  CASE from = "caller" ->
         /\ obs' = [ o EXCEPT !.raised = err ]
         /\ Finish(op, "none", "none")
    [] from = "handle2FA" ->
         IF err # NoError
           THEN obs' = Caught(o, err) /\ Finish(op, "none", "none")
           ELSE IF UsedTotp(ret)
             THEN obs' = o /\ Finish(op, "none", "none")
             ELSE obs' = o /\ StartFetch("handle2FA", 0)
    [] from = "handleSMSOrTotp" ->
         IF err # NoError
           THEN obs' = Caught(o, err) /\ Finish(op, "none", "none")
           ELSE IF UsedTotp(ret)
             THEN obs' = o /\ Finish(op, "none", "none")
             ELSE /\ obs' = [ o EXCEPT !.manual = TRUE ]
                  /\ Ctl(op, "sms_prompt", PromptTimeoutMs, "none", Undefined,
                         "none", 0, 0, "open", "pending")

\* Lines 94-97 of tryAutoTotp, entered when the age of lastTotpSubmit is age.
TryEntry(op, from, arg, age, o) ==
  LET secret == IF Truthy(arg) THEN arg ELSE currentTotpSecret
  IN  IF ~Truthy(secret)
        THEN AfterTry(op, from, FALSE, NoError,
                      TryRec(o, FALSE, NoError, FALSE, FALSE))
        ELSE IF Throttled(age)
          THEN AfterTry(op, from, FALSE, NoError,
                        TryRec(o, FALSE, NoError, TRUE, TRUE))
          ELSE /\ obs' = o
               /\ Ctl(op, "try_ensure", 0, from, secret, "none", 0, 0,
                      "none", "none")

\* fetchAuthenticatorNumber returns to its caller (lines 86-87, 151-153);
\* number tells whether it returned a non-empty text.
AfterFetch(number, age) ==
  IF fFrom = "handle2FA"
    THEN IF number
      THEN obs' = [ obs EXCEPT !.waits = 1 ] /\ StartApprove(0)
      ELSE TryEntry("handle2FA", "handleSMSOrTotp", currentTotpSecret, age, obs)
    ELSE IF ~number
      THEN /\ obs' = [ obs EXCEPT !.warn = "could not refresh" ]
           /\ Finish("handle2FA", "none", "none")
      ELSE IF CyclesLeft(cycle)
        THEN /\ obs' = [ obs EXCEPT !.waits = @ + 1 ]
             /\ StartApprove(cycle + 1)
        ELSE /\ obs' = [ obs EXCEPT !.warn = "max cycles reached" ]
             /\ Finish("handle2FA", "none", "none")

\* ---- public synchronous methods
\* setTotpSecret(secret), lines 65-69.
SetTotpSecret(secret) ==
  /\ Idle
  /\ currentTotpSecret' = NormalizeSecret(secret)
  /\ sinceTotpSubmit' = AgeCap
  /\ totpAttempts' = 0
  /\ realSubs' = 0
  /\ resetSince' = TRUE
  /\ UNCHANGED << parallel, page, prompt, tOp, tPc, waitLeft, frame, obs,
                  sinceSubmit >>

\* A reset() that forgets the secret.
SecretAfterResetCleared(secret) == Undefined

\* reset(), lines 71-74, assigns nothing to currentTotpSecret.
SecretAfterReset(secret) == secret

\* reset(), lines 71-74; obs.resetMark flips at every call of it.
Reset ==
  /\ Idle
  /\ sinceTotpSubmit' = AgeCap
  /\ totpAttempts' = 0
  /\ currentTotpSecret' = SecretAfterReset(currentTotpSecret)
  /\ realSubs' = 0
  /\ resetSince' = TRUE
  /\ obs' = [ obs EXCEPT !.resetMark = ~@ ]
  /\ UNCHANGED << parallel, page, prompt, tOp, tPc, waitLeft, frame,
                  sinceSubmit >>

\* ---- tryAutoTotp, lines 93-114
\* A caller invokes tryAutoTotp(page, context, arg).
CallTryAutoTotp(arg) ==
  /\ Idle
  /\ UNCHANGED << fields, parallel, page, hist >>
  /\ TryEntry("tryAutoTotp", "caller", arg, sinceTotpSubmit,
              [ NoObs EXCEPT !.subsBefore = realSubs ])

\* A caller invokes handle2FA(page): dismissal, then wait(500) (lines 79-80).
CallHandle2FA ==
  /\ Idle
  /\ obs' = [ NoObs EXCEPT !.subsBefore = realSubs ]
  /\ Ctl("handle2FA", "h_dismiss", DismissWaitMs, "none", Undefined, "none",
         0, 0, "none", "none")
  /\ UNCHANGED << fields, parallel, page, hist >>

\* The wait(500) is over: handle2FA calls tryAutoTotp (line 82).
HDismissDone ==
  /\ tPc = "h_dismiss"
  /\ TimePasses(waitLeft)
  /\ UNCHANGED << totpAttempts, currentTotpSecret, parallel, page, realSubs,
                  resetSince >>
  /\ TryEntry("handle2FA", "handle2FA", currentTotpSecret,
              Aged(sinceTotpSubmit, waitLeft), obs)

\* ensureTotpInput has answered (lines 99-106).
TryEnsure ==
  /\ tPc = "try_ensure"
  /\ UNCHANGED << fields, parallel, page, hist >>
  /\ IF ~codeInput
       THEN AfterTry(tOp, tFrom, FALSE, NoError,
                     TryRec(obs, FALSE, NoError, TRUE, FALSE))
       ELSE IF AttemptsExhausted
         THEN AfterTry(tOp, tFrom, FALSE, ErrTotpStillPresent,
                       TryRec(obs, FALSE, ErrTotpStillPresent, TRUE, FALSE))
         ELSE obs' = obs /\ Goto("try_submit", 0)

\* What submitTotpCode (lines 244-265) can do: type the code and submit it,
\* find the input hidden and return, fail and swallow the error, or do so
\* already when generateTOTP throws (line 246, recorded in obs.codegen).
SubmitOutcomes == { "submitted", "hidden", "failed", "codegen_failed" }

\* submitTotpCode acts (line 109).
TrySubmit(outcome) ==
  /\ tPc = "try_submit"
  /\ IF outcome = "submitted"
       THEN /\ obs' = [ obs EXCEPT !.subs = @ + 1, !.gap = sinceSubmit,
                                   !.gapReset = resetSince ]
            /\ realSubs' = Min(realSubs + 1, MaxTotpAttempts + 1)
            /\ sinceSubmit' = 0
            /\ resetSince' = FALSE
       ELSE /\ obs' = [ obs EXCEPT !.codegen = @ \/ outcome = "codegen_failed" ]
            /\ UNCHANGED hist
  /\ Goto("try_book", 0)
  /\ UNCHANGED << fields, parallel, page >>

\* submitTotpCode has returned: lines 110-112.
TryBook ==
  /\ tPc = "try_book"
  /\ totpAttempts' = totpAttempts + 1
  /\ sinceTotpSubmit' = 0
  /\ Goto("try_wait", PostSubmitWaitMs)
  /\ UNCHANGED << currentTotpSecret, parallel, page, obs, hist >>

\* The wait(1200) is over: return true (line 113).
TryWaitDone ==
  /\ tPc = "try_wait"
  /\ TimePasses(waitLeft)
  /\ UNCHANGED << totpAttempts, currentTotpSecret, parallel, page, realSubs,
                  resetSince >>
  /\ AfterTry(tOp, tFrom, TRUE, NoError, TryRec(obs, TRUE, NoError, TRUE, FALSE))

\* ---- fetchAuthenticatorNumber, lines 116-138
\* The number element appeared within the first wait (lines 118-119); an element
\* with empty text yields null.
FetchFound1 ==
  /\ tPc = "fetch_wait1"
  /\ displaySign # "absent"
  /\ NoTimePasses
  /\ UNCHANGED << totpAttempts, currentTotpSecret, parallel, page, realSubs,
                  resetSince >>
  /\ AfterFetch(displaySign = "number", sinceTotpSubmit)

\* The first wait timed out (line 120): resend loop in parallel mode, else the
\* confirm click and wait(1500) (lines 131-132).
FetchTimeout1 ==
  /\ tPc = "fetch_wait1"
  /\ displaySign = "absent"
  /\ TimePasses(waitLeft)
  /\ IF parallel
       THEN Goto("fetch_resend_probe", ResendProbeMs)
       ELSE Goto("fetch_confirm_wait", ConfirmWaitMs)
  /\ UNCHANGED << totpAttempts, currentTotpSecret, parallel, page, obs, realSubs,
                  resetSince >>

\* Line 125-127: the resend button was found (wait 60 s) or the probe timed out
\* (leave the loop).
FetchResendProbe(found) ==
  /\ tPc = "fetch_resend_probe"
  /\ IF found
       THEN NoTimePasses /\ Goto("fetch_resend_wait", ResendWaitMs)
       ELSE TimePasses(waitLeft) /\ Goto("fetch_confirm_wait", ConfirmWaitMs)
  /\ UNCHANGED << totpAttempts, currentTotpSecret, parallel, page, obs, realSubs,
                  resetSince >>

\* Line 128 and the loop header of line 124.
FetchResendWaitDone ==
  /\ tPc = "fetch_resend_wait"
  /\ TimePasses(waitLeft)
  /\ resendAttempts' = resendAttempts + 1
  /\ IF resendAttempts + 1 < MaxResendAttempts
       THEN tPc' = "fetch_resend_probe" /\ waitLeft' = ResendProbeMs
       ELSE tPc' = "fetch_confirm_wait" /\ waitLeft' = ConfirmWaitMs
  /\ UNCHANGED << totpAttempts, currentTotpSecret, parallel, page, obs, realSubs,
                  resetSince, tOp, tFrom, tSecret, fFrom, cycle, prompt >>

\* The wait(1500) after the confirm click is over (lines 132-134).
FetchConfirmDone ==
  /\ tPc = "fetch_confirm_wait"
  /\ TimePasses(waitLeft)
  /\ Goto("fetch_wait2", FetchSecondWaitMs)
  /\ UNCHANGED << totpAttempts, currentTotpSecret, parallel, page, obs, realSubs,
                  resetSince >>

\* Lines 134-135.
FetchFound2 ==
  /\ tPc = "fetch_wait2"
  /\ displaySign # "absent"
  /\ NoTimePasses
  /\ UNCHANGED << totpAttempts, currentTotpSecret, parallel, page, realSubs,
                  resetSince >>
  /\ AfterFetch(displaySign = "number", sinceTotpSubmit)

\* Line 136: the second wait timed out, return null.
FetchTimeout2 ==
  /\ tPc = "fetch_wait2"
  /\ displaySign = "absent"
  /\ TimePasses(waitLeft)
  /\ UNCHANGED << totpAttempts, currentTotpSecret, parallel, page, realSubs,
                  resetSince >>
  /\ AfterFetch(FALSE, Aged(sinceTotpSubmit, waitLeft))

\* ---- approveAuthenticator, lines 140-157
\* The login form went away within 60 s (lines 144-146).
ApApproved ==
  /\ tPc = "ap_wait"
  /\ NoTimePasses
  /\ obs' = [ obs EXCEPT !.approved = TRUE ]
  /\ Finish("handle2FA", "none", "none")
  /\ UNCHANGED << totpAttempts, currentTotpSecret, parallel, page, realSubs,
                  resetSince >>

\* The 60 s went by (line 147): look for the refresh button (line 149).
ApExpired ==
  /\ tPc = "ap_wait"
  /\ TimePasses(waitLeft)
  /\ Goto("ap_retry", RetryBtnWaitMs)
  /\ UNCHANGED << totpAttempts, currentTotpSecret, parallel, page, obs, realSubs,
                  resetSince >>

\* Lines 149-151: refresh button found and clicked, or not found within 3 s;
\* then the number is fetched again.
ApRefresh(found) ==
  /\ tPc = "ap_retry"
  /\ IF found THEN NoTimePasses ELSE TimePasses(waitLeft)
  /\ obs' = [ obs EXCEPT !.refreshes = @ + 1 ]
  /\ StartFetch("approve", cycle)
  /\ UNCHANGED << totpAttempts, currentTotpSecret, parallel, page, realSubs,
                  resetSince >>

\* ---- handleSMSOrTotp, lines 159-213
\* The catch of lines 198-204: an error with 'timeout' in its message is
\* rethrown (and reaches handle2FA's catch), any other error is logged.
SmsCatch(o, error) ==
  IF MessageIncludes(error, "timeout") THEN Caught(o, error) ELSE o

\* The operator answers the prompt before the timer fires (lines 173-177); the
\* code is typed if input[name="otc"] is visible (lines 188-197), and an error
\* of the typing goes to the catch.
OperatorAnswers(otcVisible, typed) ==
  /\ tPc = "sms_prompt"
  /\ timer = "pending" /\ waitLeft > 0
  /\ NoTimePasses
  /\ obs' = IF otcVisible /\ ~typed
              THEN SmsCatch([ obs EXCEPT !.answered = TRUE ], ErrTyping)
              ELSE [ obs EXCEPT !.answered = TRUE, !.manualTyped = otcVisible ]
  /\ Finish("handle2FA", "closed", "cleared")
  /\ UNCHANGED << totpAttempts, currentTotpSecret, parallel, page, realSubs,
                  resetSince >>

\* The 120 s timer fires (lines 180-183) and rejects the race with the timeout
\* error; the finally block closes the readline interface (line 207).
PromptTimeout ==
  /\ tPc = "sms_prompt"
  /\ timer = "pending"
  /\ TimePasses(waitLeft)
  /\ obs' = SmsCatch([ obs EXCEPT !.promptTimedOut = TRUE ], ErrPromptTimeout)
  /\ Finish("handle2FA", "closed", "fired")
  /\ UNCHANGED << totpAttempts, currentTotpSecret, parallel, page, realSubs,
                  resetSince >>

\* ---- environment
\* The caller takes the result of the call that ended.
Return ==
  /\ tPc = "done"
  /\ obs' = NoObs
  /\ Ctl("idle", "none", 0, "none", Undefined, "none", 0, 0, "none", "none")
  /\ UNCHANGED << fields, parallel, page, hist >>

\* Every age is at its cap: more time makes no difference to the handler.
Saturated == sinceTotpSubmit = AgeCap /\ sinceSubmit \in { -1, AgeCap }

\* d milliseconds pass, but not beyond the end of a timed wait.
Tick(d) ==
  /\ ~Saturated
  /\ tPc # "done"
  /\ waitLeft > 0 => d <= waitLeft
  /\ TimePasses(d)
  /\ waitLeft' = IF waitLeft > 0 THEN waitLeft - d ELSE 0
  /\ UNCHANGED << totpAttempts, currentTotpSecret, parallel, page, prompt, tOp,
                  tPc, frame, obs, realSubs, resetSince >>

\* The page changes under the handler.
PageChange ==
  /\ tPc # "done"
  /\ codeInput' \in BOOLEAN
  /\ displaySign' \in { "absent", "empty", "number" }
  /\ << codeInput', displaySign' >> # << codeInput, displaySign >>
  /\ UNCHANGED << fields, parallel, prompt, tOp, tPc, waitLeft, frame, obs, hist >>

\* ------------------------------------------- AccountCreator.retryOperation
VARIABLES
  rPc,                \* position inside retryOperation
  attempt,            \* `attempt` loop variable
  maxRetries,         \* parameter maxRetries
  initialDelayMs,     \* parameter initialDelayMs
  enableMicroGestures,\* parameter enableMicroGestures
  outcomes,           \* outcome of every invocation of operation(), in order
  rResult,            \* value retryOperation returned
  rThrown,            \* error retryOperation let through to its caller
  humanDelay,         \* Math.floor(humanDelay) of the last retry delay
  gestures,           \* number of microGestures() calls
  twin,               \* a second run stepped side by side (see NoTwin)
  context             \* parameter context

retryVars == << rPc, attempt, maxRetries, initialDelayMs, enableMicroGestures,
                outcomes, rResult, rThrown, humanDelay, gestures, twin,
                context >>

\* ---- bounds
MaxRetriesArg == 4        \* largest maxRetries argument explored
RandomScale == 1000       \* Math.random() is drawn in steps of 1/RandomScale

\* ---- program constants
DefaultMaxRetries == 3
DefaultInitialDelayMs == 1000
BaseJitterMs == 500
VarianceSpanMs == 1000
VarianceShiftMs == 500
AttemptStepMs == 800
GestureChancePct == 40

\* null, as a value comparable with the results of operation().
Null == << "null" >>
ErrOperation == << "operation", "failed" >>
ErrTargetClosed == << "target", "closed" >>

\* Values of Math.random(), as numerators over RandomScale.
RandomDraws == { 0, (GestureChancePct * RandomScale) \div 100 - 1,
                 (GestureChancePct * RandomScale) \div 100, RandomScale - 1 }

\* The value the k-th invocation of operation() resolves to.
OperationResult(k) == << "result", k >>

\* A delay that doubles with every attempt.
HumanDelayDoubling(init, att, r1, r2) ==
  ( init * (2 ^ att) * RandomScale + r1 * BaseJitterMs
    + r2 * VarianceSpanMs - VarianceShiftMs * RandomScale ) \div RandomScale

\* A delay without the random parts.
HumanDelayFixed(init, att, r1, r2) == init + att * AttemptStepMs

\* Lines 98-103: Math.floor(humanDelay) for random draws r1 and r2.
HumanDelay(init, att, r1, r2) ==
  ( init * RandomScale + r1 * BaseJitterMs + att * AttemptStepMs * RandomScale
    + r2 * VarianceSpanMs - VarianceShiftMs * RandomScale ) \div RandomScale

\* A second run of retryOperation with the same arguments and the same failing
\* operation differs from the first in its random draws only: the draws of
\* the last delay of the first run (draws) and of the second (twinDraws), and
\* the second run's Math.floor(humanDelay) (delay).
NoTwin == [ draws |-> << >>, twinDraws |-> << >>, delay |-> 0 ]

\* Values of Math.random() in the second run.
TwinDraws == { 0, 1, RandomScale - 1 }

\* The arguments of the calls of retryOperation that open the day dropdown
\* (lines 1726-1757) and the month dropdown (lines 1828-1896), and of one that
\* leaves enableMicroGestures to its default (first name, lines 2025-2040).
CallSites ==
  { [ context |-> "DAY_DROPDOWN_OPEN", maxRetries |-> 3,
      initialDelayMs |-> 1000, enableMicroGestures |-> FALSE ],
    [ context |-> "MONTH_DROPDOWN_OPEN", maxRetries |-> 3,
      initialDelayMs |-> 1200, enableMicroGestures |-> FALSE ],
    [ context |-> "FIRSTNAME_FILL", maxRetries |-> DefaultMaxRetries,
      initialDelayMs |-> DefaultInitialDelayMs,
      enableMicroGestures |-> TRUE ] }

\* A gesture test that leaves the parameter out.
MicroGestureAnyway(micro, r3) == r3 * 100 < GestureChancePct * RandomScale

\* line 107: enableMicroGestures && Math.random() < 0.4
MicroGesture(micro, r3) ==
  micro /\ r3 * 100 < GestureChancePct * RandomScale

\* A retry test that never retries.
CanRetryNever == FALSE

\* line 95: attempt < maxRetries
CanRetry == attempt < maxRetries

RetryQuiet ==
  /\ rPc = "idle" /\ attempt = 0
  /\ maxRetries = DefaultMaxRetries /\ initialDelayMs = DefaultInitialDelayMs
  /\ enableMicroGestures = TRUE
  /\ outcomes = << >> /\ rResult = Null /\ rThrown = NoError
  /\ humanDelay = 0 /\ gestures = 0
  /\ twin = NoTwin /\ context = "operation"

RetryInit == RetryQuiet

\* The loop header of line 90 with attempt = a and maxRetries = mr.
LoopHeader(a, mr) ==
  /\ attempt' = a
  /\ IF a <= mr
       THEN rPc' = "operation" /\ rResult' = Null
       ELSE rPc' = "returned" /\ rResult' = Null

\* A caller invokes retryOperation(operation, context, mr, init, micro).
CallRetryOperation(ctx, mr, init, micro) ==
  /\ rPc = "idle" /\ context' = ctx
  /\ maxRetries' = mr /\ initialDelayMs' = init /\ enableMicroGestures' = micro
  /\ LoopHeader(1, mr)
  /\ UNCHANGED << outcomes, rThrown, humanDelay, gestures >>

\* operation() resolves: lines 92-93.
OperationReturns ==
  /\ rPc = "operation"
  /\ outcomes' = Append(outcomes, "returned")
  /\ rResult' = OperationResult(Len(outcomes) + 1)
  /\ rPc' = "returned"
  /\ UNCHANGED << attempt, maxRetries, initialDelayMs, enableMicroGestures,
                  rThrown, humanDelay, gestures >>

\* operation() rejects: lines 94-112, with random draws r1 and r2, and t1 and
\* t2 in the second run.
OperationThrows(r1, r2, t1, t2) ==
  /\ rPc = "operation"
  /\ outcomes' = Append(outcomes, "threw")
  /\ IF CanRetry
       THEN /\ humanDelay' = HumanDelay(initialDelayMs, attempt, r1, r2)
            /\ twin' = [ draws |-> << r1, r2 >>, twinDraws |-> << t1, t2 >>,
                         delay |-> HumanDelay(initialDelayMs, attempt, t1, t2) ]
            /\ rPc' = "delay"
            /\ UNCHANGED rResult
       ELSE /\ rPc' = "returned" /\ rResult' = Null
            /\ UNCHANGED << humanDelay, twin >>
  /\ UNCHANGED << attempt, maxRetries, initialDelayMs, enableMicroGestures,
                  rThrown, gestures >>

\* page.waitForTimeout resolves (line 103); with draw r3 a micro-gesture may
\* follow (line 107), else the loop goes on.
DelayDone(r3) ==
  /\ rPc = "delay"
  /\ IF MicroGesture(enableMicroGestures, r3)
       THEN /\ rPc' = "gesture" /\ gestures' = gestures + 1
            /\ UNCHANGED << attempt, rResult >>
       ELSE LoopHeader(attempt + 1, maxRetries) /\ UNCHANGED gestures
  /\ UNCHANGED << maxRetries, initialDelayMs, enableMicroGestures, outcomes,
                  rThrown, humanDelay >>

\* page.waitForTimeout rejects (the page was closed): the error leaves the
\* catch block and retryOperation.
DelayFails ==
  /\ rPc = "delay"
  /\ rPc' = "thrown" /\ rThrown' = ErrTargetClosed
  /\ UNCHANGED << attempt, maxRetries, initialDelayMs, enableMicroGestures,
                  outcomes, rResult, humanDelay, gestures >>

\* microGestures() is over (line 108).
GestureDone ==
  /\ rPc = "gesture"
  /\ LoopHeader(attempt + 1, maxRetries)
  /\ UNCHANGED << maxRetries, initialDelayMs, enableMicroGestures, outcomes,
                  rThrown, humanDelay, gestures >>

\* The caller takes the result.
RetryReturn ==
  /\ rPc \in { "returned", "thrown" }
  /\ rPc' = "idle" /\ attempt' = 0
  /\ outcomes' = << >> /\ rResult' = Null /\ rThrown' = NoError
  /\ humanDelay' = 0 /\ gestures' = 0 /\ twin' = NoTwin
  /\ UNCHANGED << maxRetries, initialDelayMs, enableMicroGestures >>

\* ------------------------------------------------- AccountCreator.create
VARIABLES
  cPc,                \* position inside create()
  nextStep,           \* `step` parameter of the running clickNext
  retryCount,         \* `retryCount` parameter of handleEmailErrors
  noErrors,           \* result of the last verifyNoErrors()
  cResult,            \* what create() returned
  pageClosed,         \* this.page.isClosed()
  saved,              \* number of saveAccount() calls
  \* ---- the signup page
  pageCond,           \* what the page shows: "ok", "error", "rateLimit", "unavailable"
  urlChanged,         \* the last Next click changed the page URL
  idError,            \* text of the identifier error element
  \* ---- the identifier stage
  ident,              \* the identifier submitted last and the stage's result
  \* ---- observations of the run (not program state)
  cObs

createVars == << cPc, nextStep, retryCount, noErrors, cResult, pageClosed,
                 saved, pageCond, urlChanged, idError, ident, cObs >>

\* ---- program constants
MAX_EMAIL_RETRIES == 5

\* The stages of create(), in the order of lines 677-793.
Stages ==
  << "navigate", "reveal signup", "identifier", "password", "birthdate",
     "names", "challenge", "post-creation", "verification" >>

PageConds == { "ok", "error", "rateLimit", "unavailable" }
IdErrors == { "none", "passwordInfo", "reserved", "taken", "unknown" }

Pending == << "pending" >>
Record == << "record" >>

\* An identifier is the sequence of its parts, "@" being a part of its own.
\* The identifiers the stage starts from (generated, or typed by the operator,
\* who may type anything), the generator's next ones and the page's suggestions.
Emails ==
  { << "alice", "@", "contoso.com" >>, << "bob", "@", "outlook.com" >>,
    << "carol" >> }

\* email.split('@')[0]
Username(email) ==
  IF \E i \in DOMAIN email : email[i] = "@"
    THEN SubSeq(email, 1, (CHOOSE i \in DOMAIN email :
                             /\ email[i] = "@"
                             /\ \A j \in 1 .. (i - 1) : email[j] # "@") - 1)
    ELSE email

\* `${username}@outlook.com` (line 1234)
FallbackEmail(originalEmail) ==
  Username(originalEmail) \o << "@", "outlook.com" >>

\* No identifier yet: the one submitted last, the one it replaced, the way it
\* was produced and the identifier the stage returned.
NoIdent ==
  [ email |-> << >>, replaced |-> << >>, via |-> "none", result |-> << >> ]

\* Observations of one create() run: the stages started and how each one that
\* ended, ended; the blocked outcome the code detected first and the number of
\* page actions and of stages at that moment; the page actions so far; the
\* stage in which the "temporarily unavailable" indicator first showed and the
\* page actions at that moment; the alternate identifiers submitted; what the
\* verification stage reached; how the optional post-setup ended; the
\* waitForCaptchaSolved call ("pending" while it runs, then the way it ended,
\* until the next stage is over) and the time it has run.
NoCreateObs ==
  [ stageLog |-> << >>, stageDone |-> << >>, detected |-> "none",
    actionsAtDetect |-> 0, stagesAtDetect |-> 0, pageActions |-> 0,
    unavailAt |-> 0, actionsAtUnavail |-> 0, alternates |-> 0,
    reached |-> "none", postSetup |-> "none",
    captchaWait |-> "none", waitedMs |-> 0 ]

\* What the navigation of the verification stage may reach.
Reachable == { "home, signed in", "home, signed out", "navigation failed" }

CreateQuiet ==
  /\ cPc = "idle" /\ nextStep = "none" /\ retryCount = 0 /\ noErrors = TRUE
  /\ cResult = Pending /\ pageClosed = FALSE /\ saved = 0
  /\ pageCond = "ok" /\ urlChanged = FALSE /\ idError = "none"
  /\ ident = NoIdent
  /\ cObs = NoCreateObs

CreateInit == CreateQuiet

\* n more actions on the page (navigation, typing, click).
Acts(o, n) == [ o EXCEPT !.pageActions = @ + n ]

\* The page shows cond.
Shown(o, cond) ==
  IF o.unavailAt = 0 /\ cond = "unavailable"
    THEN [ o EXCEPT !.unavailAt = Len(o.stageLog),
                    !.actionsAtUnavail = o.pageActions ]
    ELSE o

\* The code has detected the blocked or terminal outcome `kind`.
Detect(o, kind) ==
  IF o.detected = "none"
    THEN [ o EXCEPT !.detected = kind, !.actionsAtDetect = o.pageActions,
                    !.stagesAtDetect = Len(o.stageLog) ]
    ELSE o

\* A failure test that lets failures pass.
FailedIgnored(outcome) == FALSE

\* The failure tests of create(): `if (!emailResult) return null` (line 704) and
\* its siblings at lines 719, 726, 743, 750, 766, 773.
Failed(outcome) == outcome = "failed"

\* A stage of create() has ended with outcome "ok", "failed" (null or false) or
\* "threw"; on success create() calls the next stage, which starts at pc.
StageEnds(o, outcome, next, pc) ==
  IF outcome = "threw" \/ Failed(outcome)
    THEN /\ cPc' = "returned" /\ cResult' = Null
         /\ cObs' = [ o EXCEPT !.stageDone = Append(@, outcome) ]
    ELSE /\ cPc' = pc /\ cResult' = cResult
         /\ cObs' = [ o EXCEPT !.stageDone = Append(@, outcome),
                               !.stageLog = Append(@, next) ]

\* `await new Promise(() => { })`: create() is suspended for good, having
\* detected `kind`.
Suspend(o, kind) ==
  /\ cPc' = "suspended" /\ cResult' = cResult
  /\ cObs' = Detect(o, kind)

\* verifyNoErrors() (lines 210-296) on a page showing cond.
NoErrorsOn(cond) == cond = "ok"

\* An error test that sees no error.
HasErrorsIgnored(noErr) == FALSE

\* `!(await this.verifyNoErrors())`, lines 1495, 1667-1668 and 2088-2089.
HasErrors(noErr) == ~noErr

\* A rounds test that is off by one.
MaxRetriesReachedLate(count) == count > MAX_EMAIL_RETRIES

\* line 1188: retryCount >= MAX_EMAIL_RETRIES
MaxRetriesReached(count) == count >= MAX_EMAIL_RETRIES

\* create(context) is called (lines 667-677).
StartCreate ==
  /\ cPc = "idle"
  /\ cPc' = "navigate"
  /\ cObs' = [ cObs EXCEPT !.stageLog = << "navigate" >> ]
  /\ UNCHANGED << nextStep, retryCount, noErrors, cResult, pageClosed, saved,
                  pageCond, urlChanged, idError >>

\* navigateToSignup() (lines 885-990): page.goto resolves or rejects.
NavigateToSignup(outcome, cond) ==
  /\ cPc = "navigate"
  /\ pageCond' = cond
  /\ StageEnds(Shown(Acts(cObs, 1), cond), outcome, "reveal signup", "reveal")
  /\ UNCHANGED << nextStep, retryCount, noErrors, pageClosed, saved, urlChanged,
                  idError >>

\* clickCreateAccount() (lines 1029-1073): throws when no button works.
ClickCreateAccount(outcome, cond) ==
  /\ cPc = "reveal"
  /\ pageCond' = cond
  /\ StageEnds(Shown(Acts(cObs, 1), cond), outcome, "identifier", "email_fill")
  /\ UNCHANGED << nextStep, retryCount, noErrors, pageClosed, saved, urlChanged,
                  idError >>

\* The page's answer to a submitted identifier: an error text in the error
\* element, or no error element and any other page.
IdAnswers ==
  { << e, "error" >> : e \in IdErrors \ { "none" } }
    \cup { << "none", c >> : c \in PageConds \ { "error" } }

\* generateAndFillEmail up to the handleEmailErrors call (lines 1075-1170):
\* the input wait may throw, the fill may fail after its retries (return null);
\* else Next is clicked and the page answers.
GenerateAndFillEmail(outcome, answer) ==
  /\ cPc = "email_fill"
  /\ IF outcome = "ok"
       THEN /\ cPc' = "email_errors"
            /\ cObs' = Shown(Acts(cObs, 2), answer[2])
            /\ idError' = answer[1] /\ pageCond' = answer[2]
            /\ retryCount' = 0
            /\ \E email \in Emails :
                 ident' = [ NoIdent EXCEPT !.email = email, !.via = "entered" ]
            /\ UNCHANGED cResult
       ELSE /\ StageEnds(Acts(cObs, 1), outcome, "password", "password_fill")
            /\ UNCHANGED << idError, pageCond, retryCount, ident >>
  /\ UNCHANGED << nextStep, noErrors, pageClosed, saved, urlChanged >>

\* handleEmailErrors(email, retryCount), lines 1183-1228.
HandleEmailErrors ==
  /\ cPc = "email_errors"
  /\ IF MaxRetriesReached(retryCount)
       THEN Suspend(cObs, "roundsExhausted")
       ELSE CASE idError \in { "none", "passwordInfo" } ->
                   StageEnds(cObs, "ok", "password", "password_fill")
              [] idError = "reserved" ->
                   cPc' = "reserved" /\ UNCHANGED << cResult, cObs >>
              [] idError = "taken" ->
                   cPc' = "taken" /\ UNCHANGED << cResult, cObs >>
              [] OTHER -> Suspend(cObs, "unknownIdentifierError")
  /\ ident' = IF ~MaxRetriesReached(retryCount)
                  /\ idError \in { "none", "passwordInfo" }
               THEN [ ident EXCEPT !.result = ident.email ]
               ELSE ident
  /\ UNCHANGED << nextStep, retryCount, noErrors, pageClosed, saved, pageCond,
                  urlChanged, idError >>

\* An alternate identifier is typed and submitted, and handleEmailErrors is
\* called with retryCount + 1 (lines 1241-1276 and 1311-1354); if the fill
\* fails after its retries the stage fails.
SubmitAlternate(filled, answer, newEmail, via) ==
  IF filled
    THEN /\ cPc' = "email_errors"
         /\ retryCount' = retryCount + 1
         /\ ident' = [ ident EXCEPT !.email = newEmail, !.via = via,
                                    !.replaced = ident.email ]
         /\ cObs' = [ Shown(Acts(cObs, 2), answer[2])
                        EXCEPT !.alternates = @ + 1 ]
         /\ idError' = answer[1] /\ pageCond' = answer[2]
         /\ UNCHANGED cResult
    ELSE /\ StageEnds(Acts(cObs, 1), "failed", "password", "password_fill")
         /\ UNCHANGED << retryCount, idError, pageCond, ident >>

\* handleReservedDomain(originalEmail, retryCount), lines 1230-1277.
HandleReservedDomain(filled, answer) ==
  /\ cPc = "reserved"
  /\ SubmitAlternate(filled, answer, FallbackEmail(ident.email), "reserved")
  /\ UNCHANGED << nextStep, noErrors, pageClosed, saved, urlChanged >>

\* handleEmailTaken(retryCount) when the page offers no suggestion
\* (lines 1305-1355): a newly generated identifier is submitted.
HandleEmailTakenNoSuggestion(filled, answer) ==
  /\ cPc = "taken"
  /\ \E newEmail \in Emails : SubmitAlternate(filled, answer, newEmail, "taken")
  /\ UNCHANGED << nextStep, noErrors, pageClosed, saved, urlChanged >>

\* handleEmailTaken(retryCount) with a suggestions container (lines 1357-1441):
\* without a usable suggestion button the workflow is held (lines 1364, 1373,
\* 1389); else the suggestion is clicked and, if the error is gone or Next is
\* enabled, Next is clicked; an error left after that click holds the workflow
\* (line 1428). idError keeps the error text while the indicator is visible
\* (errorStill at line 1411, finalError at line 1424).
HandleEmailTakenSuggestion(usable, errorStill, nextEnabled, finalError, cond) ==
  /\ cPc = "taken"
  /\ IF ~usable
       THEN Suspend(cObs, "noUsableSuggestion") /\ UNCHANGED pageCond
       ELSE LET clicks == IF errorStill /\ ~nextEnabled THEN 1 ELSE 2
                o == [ Acts(cObs, clicks) EXCEPT !.alternates = @ + 1 ]
            IN  IF errorStill /\ nextEnabled /\ finalError
                  THEN Suspend(o, "identifierErrorUnresolved")
                         /\ pageCond' = "error"
                  ELSE /\ pageCond' = IF clicks = 2 THEN cond ELSE pageCond
                       /\ StageEnds(IF clicks = 2 THEN Shown(o, cond) ELSE o,
                                    "ok", "password", "password_fill")
  /\ IF usable /\ ~(errorStill /\ nextEnabled /\ finalError)
       THEN \E suggested \in Emails :
              LET cleanEmail == IF \E i \in DOMAIN suggested : suggested[i] = "@"
                                  THEN suggested
                                  ELSE suggested \o << "@", "outlook.com" >>
              IN  ident' = [ email |-> cleanEmail, replaced |-> ident.email,
                             via |-> "suggestion", result |-> cleanEmail ]
       ELSE UNCHANGED ident
  /\ idError' = IF usable /\ (~errorStill \/ (nextEnabled /\ ~finalError))
                  THEN "none"
                  ELSE idError
  /\ UNCHANGED << nextStep, retryCount, noErrors, pageClosed, saved,
                  urlChanged >>

\* fillPassword() (lines 1523-1563): the waits may throw, the fill may fail
\* after its retries; then create() calls clickNext('password').
FillPassword(outcome) ==
  /\ cPc = "password_fill"
  /\ IF outcome = "ok"
       THEN /\ cPc' = "next_click" /\ nextStep' = "password"
            /\ cObs' = Acts(cObs, 1)
            /\ UNCHANGED cResult
       ELSE /\ StageEnds(Acts(cObs, 1), outcome, "birthdate", "birthdate_fill")
            /\ UNCHANGED nextStep
  /\ UNCHANGED << retryCount, noErrors, pageClosed, saved, pageCond, urlChanged,
                  idError >>

\* clickNext(step) has returned true: create() goes on (lines 725-779).
AfterNext(o) ==
  CASE nextStep = "password" -> StageEnds(o, "ok", "birthdate", "birthdate_fill")
    [] nextStep = "birthdate" -> StageEnds(o, "ok", "names", "names_fill")
    [] OTHER -> StageEnds(o, "ok", "challenge", "captcha_check")

\* clickNext(step) up to the URL comparison (lines 1444-1490): the button probe
\* may throw; else Next is clicked, the page answers, and a changed URL counts
\* as success.
ClickNextClick(outcome, cond, url) ==
  /\ cPc = "next_click"
  /\ IF outcome = "threw"
       THEN /\ StageEnds(cObs, "threw", "none", "none")
            /\ UNCHANGED << pageCond, urlChanged >>
       ELSE /\ pageCond' = cond /\ urlChanged' = url
            /\ IF url
                 THEN AfterNext(Shown(Acts(cObs, 1), cond))
                 ELSE /\ cPc' = "next_verify"
                      /\ cObs' = Shown(Acts(cObs, 1), cond)
                      /\ UNCHANGED cResult
  /\ UNCHANGED << nextStep, retryCount, noErrors, pageClosed, saved, idError >>

\* verifyNoErrors(), lines 210-296, called from clickNext (line 1495),
\* fillBirthdate (line 1667) or fillNames (line 2088).
VerifyNoErrors ==
  /\ cPc \in { "next_verify", "birthdate_verify", "names_verify" }
  /\ noErrors' = NoErrorsOn(pageCond)
  /\ cObs' = IF NoErrorsOn(pageCond) THEN cObs ELSE Detect(cObs, pageCond)
  /\ cPc' = CASE cPc = "next_verify" -> "next_checked"
              [] cPc = "birthdate_verify" -> "birthdate_checked"
              [] OTHER -> "names_checked"
  /\ UNCHANGED << nextStep, retryCount, cResult, pageClosed, saved, pageCond,
                  urlChanged, idError >>

\* clickNext after verifyNoErrors (lines 1495-1520): errors hold the workflow.
ClickNextChecked ==
  /\ cPc = "next_checked"
  /\ IF HasErrors(noErrors) THEN Suspend(cObs, pageCond) ELSE AfterNext(cObs)
  /\ UNCHANGED << nextStep, retryCount, noErrors, pageClosed, saved, pageCond,
                  urlChanged, idError >>

\* fillBirthdate() up to its verifyNoErrors call (lines 1599-1667): a dropdown
\* or the year input that cannot be filled makes it return null.
FillBirthdate(outcome, cond) ==
  /\ cPc = "birthdate_fill"
  /\ pageCond' = cond
  /\ IF outcome = "ok"
       THEN /\ cPc' = "birthdate_verify"
            /\ cObs' = Shown(Acts(cObs, 1), cond)
            /\ UNCHANGED cResult
       ELSE StageEnds(Shown(Acts(cObs, 1), cond), outcome, "names", "names_fill")
  /\ UNCHANGED << nextStep, retryCount, noErrors, pageClosed, saved, urlChanged,
                  idError >>

\* fillBirthdate after verifyNoErrors (lines 1668-1695): errors or a disabled
\* Next button make it return null; else create() calls clickNext('birthdate').
FillBirthdateChecked(nextEnabled) ==
  /\ cPc = "birthdate_checked"
  /\ IF HasErrors(noErrors) \/ ~nextEnabled
       THEN /\ StageEnds(cObs, "failed", "names", "names_fill")
            /\ UNCHANGED nextStep
       ELSE /\ cPc' = "next_click" /\ nextStep' = "birthdate"
            /\ UNCHANGED << cResult, cObs >>
  /\ UNCHANGED << retryCount, noErrors, pageClosed, saved, pageCond, urlChanged,
                  idError >>

\* fillNames() up to its verifyNoErrors call (lines 1987-2088).
FillNames(outcome, cond) ==
  /\ cPc = "names_fill"
  /\ pageCond' = cond
  /\ IF outcome = "ok"
       THEN /\ cPc' = "names_verify"
            /\ cObs' = Shown(Acts(cObs, 1), cond)
            /\ UNCHANGED cResult
       ELSE StageEnds(Shown(Acts(cObs, 1), cond), outcome, "challenge",
                      "captcha_check")
  /\ UNCHANGED << nextStep, retryCount, noErrors, pageClosed, saved, urlChanged,
                  idError >>

\* fillNames after verifyNoErrors (lines 2089-2123): errors hold the workflow
\* (line 2100), a disabled Next button makes it return null; else create()
\* calls clickNext('names').
FillNamesChecked(nextEnabled) ==
  /\ cPc = "names_checked"
  /\ IF HasErrors(noErrors)
       THEN Suspend(cObs, pageCond) /\ UNCHANGED nextStep
       ELSE IF ~nextEnabled
         THEN /\ StageEnds(cObs, "failed", "challenge", "captcha_check")
              /\ UNCHANGED nextStep
         ELSE /\ cPc' = "next_click" /\ nextStep' = "names"
              /\ UNCHANGED << cResult, cObs >>
  /\ UNCHANGED << retryCount, noErrors, pageClosed, saved, pageCond, urlChanged,
                  idError >>

\* ---- bounds
CaptchaTickMs == 200000   \* time one pass of the captcha wait loop takes

\* ---- program constants
MaxWaitTimeMs == 600000   \* maxWaitTime = 10 * 60 * 1000

\* A call whose promise is left pending.
AwaitSkipped(pending) == FALSE

\* `await`: create() goes on only when the promise it awaits is settled.
Await(pending) == pending

\* waitForCaptcha() (lines 2284-2336) as create() calls it (lines 779-790):
\* with a captcha in sight waitForCaptchaSolved() is called and awaited.
WaitForCaptcha(captcha) ==
  /\ cPc = "captcha_check"
  /\ IF captcha
       THEN LET o == [ cObs EXCEPT !.captchaWait = "pending" ]
            IN  IF Await(TRUE)
                  THEN cPc' = "captcha_wait" /\ cObs' = o /\ UNCHANGED cResult
                  ELSE StageEnds(o, "ok", "post-creation", "post_creation")
       ELSE StageEnds(cObs, "ok", "post-creation", "post_creation")
  /\ UNCHANGED << nextStep, retryCount, noErrors, pageClosed, saved, pageCond,
                  urlChanged, idError >>

\* One pass of the loop of waitForCaptchaSolved() (lines 2343-2364) that finds
\* the captcha still there: waitForCaptcha() looks at the page and
\* page.waitForTimeout(2000) passes.
CaptchaStillPresent ==
  /\ cObs.captchaWait = "pending"
  /\ cObs.waitedMs < MaxWaitTimeMs
  /\ cObs' = [ cObs EXCEPT !.waitedMs = @ + CaptchaTickMs ]
  /\ UNCHANGED << cPc, cResult, nextStep, retryCount, noErrors, pageClosed,
                  saved, pageCond, urlChanged, idError >>

\* waitForCaptchaSolved() (lines 2338-2372) ends: the ten minutes have run
\* out (throw, line 2371), an error inside the loop is logged and the
\* function returns (line 2367), or the captcha has gone and
\* waitForAccountCreation is called (line 2357).
WaitForCaptchaSolved(outcome, cond) ==
  LET o == [ cObs EXCEPT !.captchaWait = outcome, !.waitedMs = 0 ]
  IN  /\ cObs.captchaWait = "pending"
      /\ outcome = "timeout" <=> cObs.waitedMs >= MaxWaitTimeMs
      /\ CASE outcome = "timeout" ->
                StageEnds(o, "threw", "none", "none") /\ UNCHANGED pageCond
           [] outcome = "error" ->
                /\ StageEnds(o, "ok", "post-creation", "post_creation")
                /\ UNCHANGED pageCond
           [] OTHER ->
                /\ cPc' = "account_creation" /\ pageCond' = cond
                /\ cObs' = Shown(o, cond)
                /\ UNCHANGED cResult
      /\ UNCHANGED << nextStep, retryCount, noErrors, pageClosed, saved,
                      urlChanged, idError >>

\* waitForAccountCreation() (lines 515-634): the unavailability indicator holds
\* the workflow (line 542); else it returns and so does waitForCaptchaSolved.
WaitForAccountCreation ==
  /\ cPc = "account_creation"
  /\ IF pageCond = "unavailable"
       THEN Suspend(cObs, "unavailable")
       ELSE StageEnds(cObs, "ok", "post-creation", "post_creation")
  /\ UNCHANGED << nextStep, retryCount, noErrors, pageClosed, saved, pageCond,
                  urlChanged, idError >>

\* handlePostCreationQuestions() (lines 2374-2451): prompts found are clicked
\* away; a click may throw.
HandlePostCreationQuestions(outcome, clicks) ==
  /\ cPc = "post_creation"
  /\ StageEnds(Acts([ cObs EXCEPT !.captchaWait = "none" ], clicks), outcome,
               "verification", "verification")
  /\ UNCHANGED << nextStep, retryCount, noErrors, pageClosed, saved, pageCond,
                  urlChanged, idError >>

\* verifyAccountActive() (lines 2524-2563): page.goto to the rewards site; its
\* errors are logged and swallowed, and nothing on the page reached is tested.
VerifyAccountActive(cond, reached) ==
  /\ cPc = "verification"
  /\ cPc' = "post_setup"
  /\ pageCond' = cond
  /\ cObs' = [ Shown(Acts(cObs, 1), cond) EXCEPT !.stageDone = Append(@, "ok"),
                                                !.reached = reached ]
  /\ UNCHANGED << nextStep, retryCount, noErrors, cResult, pageClosed, saved,
                  urlChanged, idError >>

\* A post-setup whose error is not caught.
PostSetupEndsAsItWent(outcome) == outcome

\* The try/catch around the post-setup (lines 800-846): an error of the
\* recovery-identifier or 2FA setup is logged and swallowed.
PostSetupEnds(outcome) == "ok"

\* Post-setup, saveAccount and the return of the record (lines 795-868).
SaveAndReturn(outcome) ==
  /\ cPc = "post_setup"
  /\ cPc' = "returned"
  /\ cObs' = [ cObs EXCEPT !.postSetup = outcome ]
  /\ IF PostSetupEnds(outcome) = "threw"
       THEN cResult' = Null /\ UNCHANGED saved
       ELSE cResult' = Record /\ saved' = saved + 1
  /\ UNCHANGED << nextStep, retryCount, noErrors, pageClosed, pageCond,
                  urlChanged, idError >>

\* close() (lines 2998-3004), called by the owner of the creator once create()
\* has returned.
Close ==
  /\ cPc = "returned"
  /\ ~pageClosed
  /\ pageClosed' = TRUE
  /\ UNCHANGED << cPc, nextStep, retryCount, noErrors, cResult, saved, pageCond,
                  urlChanged, idError, cObs >>

\* ------------------------------------------------ code-input resolution
\* TotpHandler.findFirstTotpInput / isLikelyTotpInput / ensureTotpInput.
\* Strings the heuristics inspect are sequences of characters, so that
\* toLowerCase(), includes() and startsWith() are computed and not assumed.
\* The page is the sequence of its <input> elements in document order and is
\* not changed by anything but the clicks of ensureTotpInput.
VARIABLES
  inputs,     \* the page's input elements, in document order
  heading,    \* detectTotpHeading(page) would return a heading
  iPc,        \* position of the ensureTotpInput call
  round,      \* loop variable i of ensureTotpInput, counted from 1
  foundAt,    \* index in inputs of the element the returned selector names
  foundSel,   \* the selector returned, << >> for null
  controls,   \* per selector list, the selectors whose first target is visible
  clickLog,    \* the clicks of the current call, in order
  prevCall    \* what the earlier calls of ensureTotpInput returned

inputVars == << inputs, heading, iPc, round, foundAt, foundSel, controls,
               clickLog, prevCall >>

EnsureAttempts == 4

Lit ==
  [ empty |->
      << >>,
    password |->
      << "p", "a", "s", "s", "w", "o", "r", "d" >>,
    email |->
      << "e", "m", "a", "i", "l" >>,
    PasswordMixed |->
      << "P", "a", "s", "s", "w", "o", "r", "d" >>,
    tel |->
      << "t", "e", "l" >>,
    loginfmt |->
      << "l", "o", "g", "i", "n", "f", "m", "t" >>,
    passwd |->
      << "p", "a", "s", "s", "w", "d" >>,
    login |->
      << "l", "o", "g", "i", "n" >>,
    PasswdMixed |->
      << "P", "a", "s", "s", "w", "d" >>,
    userEmail |->
      << "u", "s", "e", "r", "E", "m", "a", "i", "l" >>,
    loginCode |->
      << "l", "o", "g", "i", "n", "_", "c", "o", "d", "e" >>,
    pin |->
      << "p", "i", "n" >>,
    otc |->
      << "o", "t", "c" >>,
    otp |->
      << "o", "t", "p" >>,
    code |->
      << "c", "o", "d", "e" >>,
    oneTime |->
      << "o", "n", "e", "-", "t", "i", "m", "e" >>,
    oneTimeCode |->
      << "o", "n", "e", "-", "t", "i", "m", "e", "-", "c", "o", "d", "e" >>,
    otcInput |->
      << "o", "t", "c", "I", "n", "p", "u", "t" >>,
    idCC |->
      << "i", "d", "T", "x", "t", "B", "x", "_", "S", "A", "O", "T", "C", "C",
      "_", "O", "T", "C" >>,
    idCS |->
      << "i", "d", "T", "x", "t", "B", "x", "_", "S", "A", "O", "T", "C", "S",
      "_", "O", "T", "C" >>,
    floatingLabelInput |->
      << "f", "l", "o", "a", "t", "i", "n", "g", "L", "a", "b", "e", "l", "I",
      "n", "p", "u", "t" >>,
    floatingLabelInput5 |->
      << "f", "l", "o", "a", "t", "i", "n", "g", "L", "a", "b", "e", "l", "I",
      "n", "p", "u", "t", "5" >>,
    floatinglabelinput |->
      << "f", "l", "o", "a", "t", "i", "n", "g", "l", "a", "b", "e", "l", "i",
      "n", "p", "u", "t" >>,
    hash |->
      << "#" >> ]

TotpInputSelectors ==
  << << "i", "n", "p", "u", "t", "[", "n", "a", "m", "e", "=", "\"", "o",
       "t", "c", "\"", "]" >>,
     << "#", "i", "d", "T", "x", "t", "B", "x", "_", "S", "A", "O", "T",
       "C", "C", "_", "O", "T", "C" >>,
     << "#", "i", "d", "T", "x", "t", "B", "x", "_", "S", "A", "O", "T",
       "C", "S", "_", "O", "T", "C" >>,
     << "i", "n", "p", "u", "t", "[", "d", "a", "t", "a", "-", "t", "e",
       "s", "t", "i", "d", "=", "\"", "o", "t", "c", "I", "n", "p", "u", "t",
       "\"", "]" >>,
     << "i", "n", "p", "u", "t", "[", "a", "u", "t", "o", "c", "o", "m",
       "p", "l", "e", "t", "e", "=", "\"", "o", "n", "e", "-", "t", "i", "m",
       "e", "-", "c", "o", "d", "e", "\"", "]" >>,
     << "i", "n", "p", "u", "t", "[", "t", "y", "p", "e", "=", "\"", "t",
       "e", "l", "\"", "]", "[", "n", "a", "m", "e", "=", "\"", "o", "t", "c",
       "\"", "]" >>,
     << "i", "n", "p", "u", "t", "[", "i", "d", "^", "=", "\"", "f", "l",
       "o", "a", "t", "i", "n", "g", "L", "a", "b", "e", "l", "I", "n", "p",
       "u", "t", "\"", "]" >> >>

UpperCase ==
  << "A", "B", "C", "D", "E", "F", "G", "H", "I", "J", "K", "L", "M", "N",
    "O", "P", "Q", "R", "S", "T", "U", "V", "W", "X", "Y", "Z" >>

LowerCase ==
  << "a", "b", "c", "d", "e", "f", "g", "h", "i", "j", "k", "l", "m", "n",
    "o", "p", "q", "r", "s", "t", "u", "v", "w", "x", "y", "z" >>

ToLowerCase(s) ==
  [ i \in DOMAIN s |->
      IF \E k \in DOMAIN UpperCase : UpperCase[k] = s[i]
        THEN LowerCase[CHOOSE k \in DOMAIN UpperCase : UpperCase[k] = s[i]]
        ELSE s[i] ]

Includes(s, sub) ==
  \E i \in 0 .. (Len(s) - Len(sub)) : SubSeq(s, i + 1, i + Len(sub)) = sub

StartsWith(s, prefix) ==
  Len(s) >= Len(prefix) /\ SubSeq(s, 1, Len(prefix)) = prefix

\* The attributes the heuristics read. "signal" stands for the attributes
\* whose tests have no other effect than returning true: inputmode, pattern,
\* aria-label, placeholder, maxlength and the label text.
Signals ==
  { "none", "inputmode", "pattern", "aria", "placeholder", "maxlength",
    "label" }

Elements ==
  [ type : { Lit.empty, Lit.tel, Lit.PasswordMixed, Lit.email },
    name : { Lit.empty, Lit.otc, Lit.loginfmt, Lit.PasswdMixed,
             Lit.userEmail, Lit.loginCode, Lit.pin },
    id : { Lit.empty, Lit.idCC, Lit.idCS, Lit.floatingLabelInput5 },
    autocomplete : { Lit.empty, Lit.oneTimeCode },
    testid : { Lit.empty, Lit.otcInput },
    signal : Signals,
    visible : BOOLEAN ]

\* The CSS selector TotpInputSelectors[k] matches element e.
Matches(k, e) ==
  CASE k = 1 -> e.name = Lit.otc
    [] k = 2 -> e.id = Lit.idCC
    [] k = 3 -> e.id = Lit.idCS
    [] k = 4 -> e.testid = Lit.otcInput
    [] k = 5 -> e.autocomplete = Lit.oneTimeCode
    [] k = 6 -> e.type = Lit.tel /\ e.name = Lit.otc
    [] k = 7 -> StartsWith(e.id, Lit.floatingLabelInput)

\* page.locator(sel).first(): index of the first matching element, 0 if none
First(k, els) ==
  IF \E i \in DOMAIN els : Matches(k, els[i])
    THEN CHOOSE i \in DOMAIN els :
           Matches(k, els[i]) /\ \A j \in 1 .. (i - 1) : ~Matches(k, els[j])
    ELSE 0

ExcludedByTypeOnly(type, nameAttr) ==
  type = Lit.email \/ type = Lit.password

\* the explicit exclusions of isLikelyTotpInput
Excluded(type, nameAttr) ==
  \/ type = Lit.email \/ type = Lit.password
  \/ Includes(nameAttr, Lit.loginfmt) \/ Includes(nameAttr, Lit.passwd)
  \/ Includes(nameAttr, Lit.email) \/ Includes(nameAttr, Lit.login)

IsLikelyTotpInput(e, selector, headingHint) ==
  LET type == ToLowerCase(e.type)
      nameAttr == ToLowerCase(e.name)
  IN  IF ~e.visible THEN FALSE
      ELSE IF Excluded(type, nameAttr) THEN FALSE
      ELSE \/ Includes(nameAttr, Lit.otc) \/ Includes(nameAttr, Lit.otp)
           \/ Includes(nameAttr, Lit.code)
           \/ Includes(ToLowerCase(e.autocomplete), Lit.oneTime)
           \/ e.signal \in { "inputmode", "pattern", "aria", "placeholder" }
           \/ Includes(selector, Lit.otc) \/ Includes(selector, Lit.otp)
           \/ StartsWith(ToLowerCase(e.id), Lit.floatinglabelinput)
                /\ headingHint
           \/ Includes(ToLowerCase(selector), Lit.floatinglabelinput)
                /\ headingHint
           \/ e.signal = "maxlength"
           \/ Includes(ToLowerCase(e.testid), Lit.otc)
           \/ Includes(ToLowerCase(e.testid), Lit.otp)
           \/ e.signal = "label"
           \/ headingHint

NoInput == [ at |-> 0, sel |-> << >> ]

\* the selector findFirstTotpInput returns for the first selector from k on
\* whose first element is visible and likely, with the element it names
RECURSIVE FindFrom(_, _, _)
FindFrom(k, els, headingHint) ==
  IF k > Len(TotpInputSelectors) THEN NoInput
  ELSE LET sel == TotpInputSelectors[k]
           at == First(k, els)
       IN  IF /\ at # 0
              /\ els[at].visible
              /\ IsLikelyTotpInput(els[at], sel, headingHint)
             THEN IF Includes(sel, Lit.floatingLabelInput)
                       /\ els[at].id # Lit.empty
                    THEN [ at |-> at, sel |-> Lit.hash \o els[at].id ]
                    ELSE [ at |-> at, sel |-> sel ]
             ELSE FindFrom(k + 1, els, headingHint)

FindFirstTotpInput(els, headingHint) == FindFrom(1, els, headingHint)

\* The page's inputs after a click on an alternative-verification or
\* challenge option.
RevealedPages ==
  LET otcField == [ type |-> Lit.tel, name |-> Lit.otc, id |-> Lit.idCC,
                    autocomplete |-> Lit.empty, testid |-> Lit.empty,
                    signal |-> "none", visible |-> TRUE ]
      pwdField == [ type |-> Lit.PasswordMixed, name |-> Lit.PasswdMixed,
                    id |-> Lit.floatingLabelInput5,
                    autocomplete |-> Lit.oneTimeCode, testid |-> Lit.otcInput,
                    signal |-> "maxlength", visible |-> TRUE ]
      loginField == [ type |-> Lit.empty, name |-> Lit.loginCode,
                      id |-> Lit.floatingLabelInput5,
                      autocomplete |-> Lit.empty, testid |-> Lit.empty,
                      signal |-> "inputmode", visible |-> TRUE ]
      plainField == [ type |-> Lit.empty, name |-> Lit.pin,
                      id |-> Lit.floatingLabelInput5,
                      autocomplete |-> Lit.empty, testid |-> Lit.empty,
                      signal |-> "none", visible |-> TRUE ]
      otcPwdField == [ type |-> Lit.PasswordMixed, name |-> Lit.otc,
                       id |-> Lit.empty, autocomplete |-> Lit.empty,
                       testid |-> Lit.empty, signal |-> "none",
                       visible |-> TRUE ]
  IN  { << >>, << otcField >>, << pwdField >>, << pwdField, otcField >>,
        << loginField, plainField >>, << pwdField, loginField >>,
        << plainField >>, << otcPwdField, otcField >> }

\* Which selectors of TOTP_SELECTORS.altOptions (7 selectors), .challenge
\* (11) and .submit (10) have a visible first target.
ControlSets ==
  { [ altOptions |-> {}, challenge |-> {}, submit |-> { 5, 9 } ],
    [ altOptions |-> { 2, 7 }, challenge |-> { 1, 11 }, submit |-> {} ],
    [ altOptions |-> {}, challenge |-> { 3 }, submit |-> { 2 } ] }

\* The last selector with a visible target.
LastVisible(visible) ==
  IF visible = {} THEN 0
  ELSE CHOOSE k \in visible : \A j \in visible : j <= k

\* Lines 369-386, the loop of clickFirstVisibleSelector and of
\* findFirstVisibleLocator: the first selector of the list, in list order,
\* whose first target is visible; 0 if there is none.
FirstVisible(visible) ==
  IF visible = {} THEN 0
  ELSE CHOOSE k \in visible : \A j \in visible : k <= j

\* An ensureTotpInput that clicks before it looks.
InitialFindSkipped(els, headingHint) == NoInput

\* lines 216-217: const selector = await this.findFirstTotpInput(page)
InitialFind(els, headingHint) == FindFirstTotpInput(els, headingHint)

\* A second step that does not look at acted.
TryChallengeAnyway(acted) == TRUE

\* line 230: if (!acted)
TryChallenge(acted) == ~acted

\* ---- bounds
MaxCalls == 2         \* calls of ensureTotpInput on one page

InputQuiet ==
  /\ inputs = << >> /\ heading = FALSE /\ iPc = "idle" /\ round = 0
  /\ foundAt = 0 /\ foundSel = << >>
  /\ controls = [ altOptions |-> {}, challenge |-> {}, submit |-> {} ]
  /\ clickLog = << >> /\ prevCall = << >>

InputInit ==
  /\ inputs \in { << e >> : e \in Elements }
  /\ heading \in BOOLEAN
  /\ iPc = "idle" /\ round = 0 /\ foundAt = 0 /\ foundSel = << >>
  /\ controls = [ altOptions |-> { 2, 7 }, challenge |-> { 1, 11 },
                  submit |-> {} ]
  /\ clickLog = << >> /\ prevCall = << >>

\* The pages on which the disclosure controls are explored.
RevealInit ==
  /\ inputs \in RevealedPages
  /\ heading \in BOOLEAN
  /\ iPc = "idle" /\ round = 0 /\ foundAt = 0 /\ foundSel = << >>
  /\ controls \in ControlSets
  /\ clickLog = << >> /\ prevCall = << >>

\* ensureTotpInput returns r if it names an input; otherwise the loop goes
\* on when the round acted and rounds are left, and returns null when not
AfterFind(r, i, acted) ==
  IF r.at # 0
    THEN /\ iPc' = "returned" /\ round' = i
         /\ foundAt' = r.at /\ foundSel' = r.sel
    ELSE /\ foundAt' = 0 /\ foundSel' = << >>
         /\ IF acted /\ i < EnsureAttempts
              THEN iPc' = "loop" /\ round' = i + 1
              ELSE iPc' = "returned" /\ round' = i

\* ensureTotpInput up to the first pass of its loop
CallEnsureTotpInput ==
  /\ iPc = "idle"
  /\ clickLog' = << >>
  /\ AfterFind(InitialFind(inputs, heading), 0, TRUE)
  /\ UNCHANGED << inputs, heading, controls, prevCall >>

\* A later call of ensureTotpInput on the page the earlier call left; what
\* the earlier call returned and how often it clicked is kept.
CallEnsureTotpInputAgain ==
  /\ iPc = "returned" /\ Len(prevCall) + 1 < MaxCalls
  /\ prevCall' = Append(prevCall, [ sel |-> foundSel,
                                    clicks |-> Len(clickLog) ])
  /\ clickLog' = << >>
  /\ AfterFind(InitialFind(inputs, heading), 0, TRUE)
  /\ UNCHANGED << inputs, heading, controls >>

\* The click of line 373 on the first visible selector of list, seen on the
\* page with the visible selectors seen; << >> when none is visible.
ClickOf(list, seen) ==
  IF FirstVisible(seen[list]) = 0 THEN << >>
  ELSE << [ round |-> round, list |-> list, k |-> FirstVisible(seen[list]),
            seen |-> seen ] >>

\* One pass of the loop (lines 220-238). A click that works leaves the page
\* with the inputs els, the heading headingHint and the controls next; a click
\* that throws is logged and leaves the page as it was.
EnsureRound(threw, els, headingHint, next) ==
  LET alt == ClickOf("altOptions", controls)
      afterAlt == IF alt # << >> /\ ~threw THEN next ELSE controls
      chal == IF TryChallenge(alt # << >>)
                THEN ClickOf("challenge", afterAlt) ELSE << >>
      acted == alt # << >> \/ chal # << >>
  IN  /\ iPc = "loop"
      /\ clickLog' = clickLog \o alt \o chal
      /\ IF acted /\ ~threw
           THEN inputs' = els /\ heading' = headingHint /\ controls' = next
           ELSE UNCHANGED << inputs, heading, controls >>
      /\ AfterFind(FindFirstTotpInput(inputs', heading'), round, acted)
      /\ UNCHANGED prevCall

\* submitTotpCode looks for the submit control (line 254) and clicks it, or
\* presses Enter when there is none.
ResolveSubmit ==
  /\ iPc = "returned" /\ foundAt # 0
  /\ iPc' = "submitted"
  /\ clickLog' = Append(clickLog, [ round |-> round, list |-> "submit",
                                  k |-> FirstVisible(controls.submit),
                                  seen |-> controls ])
  /\ UNCHANGED << inputs, heading, round, foundAt, foundSel, controls,
                  prevCall >>

\* ------------------------------------------------------------ text entry
\* HumanTyping.type (src/unnamed/part_001) and the places where the core
\* enters a text value into the page.  The field is the sequence of the
\* characters it holds.
VARIABLES
  tyPc,       \* position in type(): "idle", "clear", "loop", "burst", "done"
  tyValue,    \* which value is being entered (a key of TextEntries)
  tyText,     \* parameter text
  tyI,        \* loop variable i of type(), an index from 0
  tyBurst,    \* bursts: [ j |-> loop variable j, len |-> burstLength ]
  tyField,    \* content of the input field
  tyKeys      \* the characters of the keystrokes issued by this call

typingVars == << tyPc, tyValue, tyText, tyI, tyBurst, tyField, tyKeys >>

MaxTextLen == 6           \* longest text entered

\* The text values the core enters, each with the primitive the code calls
\* for it: the two one-time-code paths of TotpHandler call
\* HumanTyping.typeTotp, the steps of AccountCreator call
\* this.human.humanType.
TextEntries ==
  [ autoCode |-> "typeTotp", manualCode |-> "typeTotp",
    identifier |-> "humanType", fallbackIdentifier |-> "humanType",
    generatedIdentifier |-> "humanType", password |-> "humanType",
    year |-> "humanType", firstName |-> "humanType",
    lastName |-> "humanType", recoveryIdentifier |-> "humanType" ]

\* Texts of every length up to MaxTextLen, with letters, digits, "@", "."
\* and a character that counts as special.
Texts ==
  { SubSeq(<< "a", "@", "1", ".", "_", "9", "b", "c" >>, 1, n) :
      n \in 0 .. MaxTextLen }
    \cup { SubSeq(<< "1", "2", "3", "4", "5", "6", "7", "8" >>, 1, n) :
             n \in 1 .. MaxTextLen }

\* A keystroke on all of the text at once instead of on its i-th character.
PressWholeText(field, text, i, pressed) ==
  IF pressed THEN text ELSE field

\* locator.pressSequentially(text[i], ...).catch(() => {}): the character
\* arrives in the field unless the keystroke fails.
PressSequentially(field, text, i, pressed) ==
  IF pressed THEN Append(field, text[i + 1]) ELSE field

NoBurst == [ j |-> 0, len |-> 0 ]

\* A burst that does not move on.
BurstIndexStays(i) == i

\* line 84: i++
BurstIndex(i) == i + 1

TypingQuiet ==
  /\ tyPc = "idle" /\ tyValue = "none" /\ tyText = << >> /\ tyI = 0
  /\ tyBurst = NoBurst /\ tyField = << >> /\ tyKeys = << >>

TypingInit ==
  /\ tyPc = "idle" /\ tyValue = "none" /\ tyText = << >> /\ tyI = 0
  /\ tyBurst = NoBurst /\ tyKeys = << >>
  /\ tyField \in { << >>, << "o", "l", "d" >> }

\* A step of the core enters `text` as the value `value`: type(locator, text,
\* speed) up to the clearing of the field (lines 31-43).
CallType(value, text) ==
  /\ tyPc = "idle"
  /\ tyPc' = "clear" /\ tyValue' = value /\ tyText' = text
  /\ tyI' = 0 /\ tyBurst' = NoBurst /\ tyKeys' = << >>
  /\ UNCHANGED tyField

\* locator.clear(), with Control+a and Backspace if it fails (lines 45-52):
\* the field is emptied, or only Backspace worked, or nothing did.
ClearField(outcome) ==
  /\ tyPc = "clear"
  /\ tyField' = CASE outcome = "cleared" -> << >>
                  [] outcome = "backspace" ->
                       SubSeq(tyField, 1, Len(tyField) - 1)
                  [] OTHER -> tyField
  /\ tyPc' = "loop"
  /\ UNCHANGED << tyValue, tyText, tyI, tyBurst, tyKeys >>

\* One pass of the for loop (lines 55-80): the keystroke for text[i], then
\* either the next pass or, with the burst drawn and i < text.length - 2, the
\* burst loop with burstLength 2 or 3.
TypeChar(pressed, burstLength) ==
  /\ tyPc = "loop" /\ tyI < Len(tyText)
  /\ tyField' = PressSequentially(tyField, tyText, tyI, pressed)
  /\ tyKeys' = Append(tyKeys, tyText[tyI + 1])
  /\ IF burstLength > 0 /\ tyI < Len(tyText) - 2
       THEN /\ tyPc' = "burst" /\ tyBurst' = [ j |-> 0, len |-> burstLength ]
            /\ UNCHANGED tyI
       ELSE /\ tyI' = tyI + 1
            /\ UNCHANGED << tyPc, tyBurst >>
  /\ UNCHANGED << tyValue, tyText >>

\* One pass of the burst loop (lines 82-88), or its end and the i++ of the
\* outer loop.
BurstChar(pressed) ==
  /\ tyPc = "burst"
  /\ IF tyBurst.j < tyBurst.len /\ tyI + 1 < Len(tyText)
       THEN /\ tyI' = BurstIndex(tyI)
            /\ tyField' = PressSequentially(tyField, tyText, tyI', pressed)
            /\ tyKeys' = Append(tyKeys, tyText[tyI' + 1])
            /\ tyBurst' = [ tyBurst EXCEPT !.j = @ + 1 ]
            /\ UNCHANGED tyPc
       ELSE /\ tyI' = tyI + 1 /\ tyPc' = "loop" /\ tyBurst' = NoBurst
            /\ UNCHANGED << tyField, tyKeys >>
  /\ UNCHANGED << tyValue, tyText >>

\* The loop is over (line 90); type() returns after its last pause.
TypeReturns ==
  /\ tyPc = "loop" /\ tyI >= Len(tyText)
  /\ tyPc' = "done"
  /\ UNCHANGED << tyValue, tyText, tyI, tyBurst, tyField, tyKeys >>

\* ------------------------------------------------ post-creation prompts
\* AccountCreator.handlePostCreationQuestions and handlePasskeyPrompt. The page
\* shows one prompt at a time; a click on one of its controls closes it and
\* the next prompt, if any, shows.
VARIABLES
  qPrompts,   \* the prompts the page has yet to show, the head being displayed
  qPc,        \* position: "idle", "passkey", "kmsi", "generic", "done", "threw"
  qI,         \* loop variable of the running loop, from 0
  qClicks     \* the clicks made: the prompt displayed and the control clicked

postVars == << qPrompts, qPc, qI, qClicks >>

KmsiPasses == 3           \* for (let i = 0; i < 3; i++), line 2394

\* A prompt is its kind (what its text and test ids say) and the controls it
\* shows: "skip" a button whose text is Skip, Not now, No, Cancel or a French
\* equivalent, "secondary" button[data-testid="secondaryButton"], "primary"
\* button[data-testid="primaryButton"], "close" button[id*="close"], "link" a
\* decline control that is not a button.
Prompts ==
  [ kind : { "passkey", "kmsi", "biometric" },
    controls : SUBSET { "skip", "secondary", "primary", "close", "link" } ]

\* The prompt displayed.
Displayed ==
  IF qPrompts = << >> THEN [ kind |-> "none", controls |-> { } ]
                      ELSE Head(qPrompts)

\* What the selector lists of lines 2387-2392, 2424-2428, 2463-2473 and
\* 2493-2505 find visible on prompt p: the prompt detections, and the controls
\* the code would click (refuse: the first refuse selector that is visible).
Visible(p) ==
  [ passkey |-> p.kind = "passkey" \/ "skip" \in p.controls,
    refuse |-> IF "skip" \in p.controls THEN { "skip" }
               ELSE p.controls \cap { "secondary" },
    kmsi |-> p.kind = "kmsi" \/ "primary" \in p.controls,
    yes |-> p.controls \cap { "primary" },
    generic |-> << p.kind = "biometric", "close" \in p.controls,
                   "close" \in p.controls >>,
    closeButton |-> p.controls \cap { "secondary", "close" } ]

\* button.click() on control c of the displayed prompt: the click is made and
\* the prompt closes, or the click throws and the error leaves the function.
Click(c, threw, pc) ==
  IF threw
    THEN qPc' = "threw" /\ UNCHANGED << qPrompts, qClicks >>
    ELSE /\ qPc' = pc
         /\ qPrompts' = Tail(qPrompts)
         /\ qClicks' = Append(qClicks, [ kind |-> Displayed.kind, control |-> c ])

\* handlePostCreationQuestions() is called (lines 2374-2382).
CallHandlePostCreationQuestions ==
  /\ qPc = "idle"
  /\ qPc' = "passkey"
  /\ UNCHANGED << qPrompts, qI, qClicks >>

\* handlePasskeyPrompt() (lines 2453-2522): no prompt detected, a refuse control
\* clicked, or none found.
HandlePasskeyPrompt(threw) ==
  /\ qPc = "passkey"
  /\ qI' = 0
  /\ IF Visible(Displayed).passkey /\ Visible(Displayed).refuse # { }
       THEN \E c \in Visible(Displayed).refuse : Click(c, threw, "kmsi")
       ELSE qPc' = "kmsi" /\ UNCHANGED << qPrompts, qClicks >>

\* One pass of the "Stay signed in?" loop (lines 2394-2421), at most three.
KmsiPass(threw) ==
  /\ qPc = "kmsi"
  /\ IF Visible(Displayed).kmsi /\ Visible(Displayed).yes # { }
       THEN /\ \E c \in Visible(Displayed).yes :
                 Click(c, threw, IF qI + 1 < KmsiPasses THEN "kmsi" ELSE "generic")
            /\ qI' = IF qI + 1 < KmsiPasses THEN qI + 1 ELSE 0
       ELSE qPc' = "generic" /\ qI' = 0 /\ UNCHANGED << qPrompts, qClicks >>

\* One pass of the loop over genericPrompts (lines 2430-2448).
GenericPass(threw) ==
  /\ qPc = "generic"
  /\ qI' = IF qI + 1 < Len(Visible(Displayed).generic) THEN qI + 1 ELSE 0
  /\ IF Visible(Displayed).generic[qI + 1]
        /\ Visible(Displayed).closeButton # { }
       THEN \E c \in Visible(Displayed).closeButton :
              Click(c, threw,
                    IF qI + 1 < Len(Visible(Displayed).generic) THEN "generic"
                                                                ELSE "done")
       ELSE /\ qPc' = IF qI + 1 < Len(Visible(Displayed).generic)
                        THEN "generic" ELSE "done"
            /\ UNCHANGED << qPrompts, qClicks >>

\* --------------------------------------------------------- name stage
\* AccountCreator.fillNames with uncheckMarketingOptIn and isCheckboxChecked.
VARIABLES
  nPage,      \* the marketing checkbox as the page has it (see NamePages)
  nOn,        \* the checkbox is checked
  nPc,        \* position: "idle", "uncheck", "strategy", a step of NameSteps,
              \* "done"
  nI,         \* the strategy about to be tried, from 1
  nLog        \* clicks made and steps taken, each with the checkbox state then

namesVars == << nPage, nOn, nPc, nI, nLog >>

\* present: the page has the checkbox; on: it is checked when the stage
\* starts; usable: one of checkboxSelectors finds it visible and enabled;
\* indicator: whose check mark `div.fui-Checkbox__indicator svg`.first() is,
\* the checkbox's own, that of another, checked, checkbox, or none; label:
\* label[for="marketingOptIn"] is visible.
NamePages ==
  { pg \in [ present : BOOLEAN, on : BOOLEAN, usable : BOOLEAN,
            indicator : { "own", "other", "none" }, label : BOOLEAN ] :
      pg.present \/ (~pg.on /\ ~pg.usable /\ ~pg.label /\ pg.indicator # "own") }

\* isCheckboxChecked (lines 2136-2159): isChecked(), the first check mark of
\* the page, el.checked.
IsCheckboxChecked(on, indicator) == on \/ indicator = "other"

\* The strategies of lines 2211-2262, in order.
Strategies == << "click", "label", "evaluate" >>

\* The steps of fillNames after the checkbox (lines 1997-2123).
NameSteps == << "first name", "last name", "validate" >>

\* fillNames() is called (lines 1987-1994).
CallFillNames ==
  /\ nPc = "idle"
  /\ nPc' = "uncheck"
  /\ UNCHANGED << nPage, nOn, nI, nLog >>

\* uncheckMarketingOptIn up to the strategies (lines 2161-2205): no checkbox
\* found, found unchecked, or found checked.
UncheckMarketingOptIn ==
  /\ nPc = "uncheck"
  /\ nPc' = IF nPage.present /\ nPage.usable
                /\ IsCheckboxChecked(nOn, nPage.indicator)
              THEN "strategy" ELSE NameSteps[1]
  /\ nI' = 1
  /\ UNCHANGED << nPage, nOn, nLog >>

\* One strategy (lines 2211-2262): the click toggles the checkbox, has no
\* effect or throws; the label is clicked only if visible; then the state is
\* read again, and the next strategy runs if it still reads checked.
Strategy(outcome) ==
  /\ nPc = "strategy"
  /\ LET clicked == Strategies[nI] # "label" \/ nPage.label
         on == IF clicked /\ outcome = "toggled" THEN ~nOn ELSE nOn
         unchecked == /\ clicked /\ outcome # "threw"
                      /\ ~IsCheckboxChecked(on, nPage.indicator)
     IN  /\ nOn' = on
         /\ nLog' = IF clicked
                      THEN Append(nLog, [ what |-> Strategies[nI], on |-> on ])
                      ELSE nLog
         /\ IF unchecked \/ nI = Len(Strategies)
              THEN nPc' = NameSteps[1] /\ nI' = 1
              ELSE nPc' = "strategy" /\ nI' = nI + 1
  /\ UNCHANGED nPage

\* A step of fillNames after the checkbox: a name typed into its input (lines
\* 1997-2080), the form validated (lines 2089-2123); a step that fails makes
\* fillNames return null.
NamesStep(ok) ==
  /\ nPc = NameSteps[nI]
  /\ nLog' = Append(nLog, [ what |-> IF ok THEN NameSteps[nI] ELSE "null",
                            on |-> nOn ])
  /\ IF ok /\ nI < Len(NameSteps)
       THEN nPc' = NameSteps[nI + 1] /\ nI' = nI + 1
       ELSE nPc' = "done" /\ nI' = nI
  /\ UNCHANGED << nPage, nOn >>

\* ------------------------------------------------------ birthdate stage
\* AccountCreator.fillBirthdate: layout detection and the order of filling.
VARIABLES
  bBoxes,     \* boundingBox() of the month and of the day dropdown button
  bOrder,     \* the steps in the order chosen, << >> before the detection
  bPc,        \* position: "idle", "fill", "done"
  bI,         \* the step about to be taken, from 1
  bLog,       \* the steps taken: the control and whether it was filled
  bResult     \* what fillBirthdate returned

birthVars == << bBoxes, bOrder, bPc, bI, bLog, bResult >>

SameLinePx == 10          \* Math.abs(monthY - dayY) < 10

\* A bounding box << x, y >>, or << >> for null when the button is not there.
Boxes == { << >> } \cup ({ 0, 5, 100, 200 } \X { 0, 5, 100, 200 })

\* Lines 1613-1632: monthBox?.x ?? 0 and its siblings, sameLine, and the
\* comparison along the line or across the lines.
MonthBeforeDay(monthBox, dayBox) ==
  LET monthX == IF monthBox = << >> THEN 0 ELSE monthBox[1]
      dayX == IF dayBox = << >> THEN 0 ELSE dayBox[1]
      monthY == IF monthBox = << >> THEN 0 ELSE monthBox[2]
      dayY == IF dayBox = << >> THEN 0 ELSE dayBox[2]
      sameLine == Max(monthY - dayY, dayY - monthY) < SameLinePx
  IN  IF sameLine THEN monthX > 0 /\ dayX > 0 /\ monthX < dayX
                  ELSE monthY > 0 /\ dayY > 0 /\ monthY < dayY

\* Lines 1641-1658 and 1668-1693: the order of the steps.
Order(monthBeforeDay) ==
  IF monthBeforeDay THEN << "month", "day", "year", "validate" >>
                    ELSE << "day", "month", "year", "validate" >>

\* A test that lets a failed step pass.
StepFailedIgnored(ok) == FALSE

\* `if (!monthResult) return null` and its siblings (lines 1644-1658).
StepFailed(ok) == ~ok

\* fillBirthdate() is called: the layout is detected (lines 1599-1639).
CallFillBirthdate ==
  /\ bPc = "idle"
  /\ bPc' = "fill" /\ bI' = 1
  /\ bOrder' = Order(MonthBeforeDay(bBoxes.month, bBoxes.day))
  /\ UNCHANGED << bBoxes, bLog, bResult >>

\* One step: fillMonthDropdown, fillDayDropdown, fillYearInput, or the checks
\* of lines 1668-1693; a step that fails makes fillBirthdate return null.
BirthdateStep(ok) ==
  /\ bPc = "fill"
  /\ bLog' = Append(bLog, [ what |-> bOrder[bI], ok |-> ok ])
  /\ IF StepFailed(ok)
       THEN bPc' = "done" /\ bResult' = Null /\ bI' = bI
       ELSE IF bI < Len(bOrder)
         THEN bPc' = "fill" /\ bI' = bI + 1 /\ bResult' = bResult
         ELSE bPc' = "done" /\ bResult' = Record /\ bI' = bI
  /\ UNCHANGED << bBoxes, bOrder >>

\* ------------------------------------------------ per-character delay
\* The delay HumanTyping.type computes for a character (lines 59-63). A speed
\* is held in tenths, a random draw as a numerator over RandomScale.
VARIABLES
  dSpeed,     \* parameter speed, in tenths
  dDraw,      \* the value of Math.random() of line 62
  dDelay      \* charDelay, -1 before the first computation

delayVars == << dSpeed, dDraw, dDelay >>

BaseDelayMinMs == 40      \* 40 + Math.random() * 40
BaseDelaySpanMs == 40

\* The speeds type() is called with: its default and those of typeEmail,
\* typePassword and typeTotp (lines 31, 109, 115, 127, 141, 156).
PresetSpeeds == { 10, 12, 13, 14, 20, 30 }

\* A delay that is not rounded down but up.
CharDelayCeiling(speed, r) ==
  ((BaseDelayMinMs * RandomScale + r * BaseDelaySpanMs) * 10
     + RandomScale * speed - 1) \div (RandomScale * speed)

\* Math.floor(baseDelay / speed) with baseDelay = 40 + r * 40 (lines 62-63).
CharDelay(speed, r) ==
  ((BaseDelayMinMs * RandomScale + r * BaseDelaySpanMs) * 10)
    \div (RandomScale * speed)

\* The delay of one character is computed, with speed and draw r; a run
\* computes one.
ComputeCharDelay(speed, r) ==
  /\ dDelay = -1
  /\ dSpeed' = speed /\ dDraw' = r
  /\ dDelay' = CharDelay(speed, r)

\* --------------------------------------- the TOTP secret in log messages
\* AccountCreator.setup2FA (src/unnamed/part_003, lines 3174-3261) reads the
\* secret from the page and logs it; TotpHandler.submitTotpCode uses it.  A
\* log message is the sequence of its literal text, as one element, and of the
\* characters interpolated into it.
VARIABLES
  kValue,     \* the base32 text the page shows, as its characters
  kInField,   \* an element of secretSelectors holds it (else only the content)
  kPc,        \* position in setup2FA and the login that follows
  kSecret,    \* totpSecret, << >> while there is none
  kLogs       \* the log messages, in order

secretVars == << kValue, kInField, kPc, kSecret, kLogs >>

\* ---- program constants
MinSecretLen == 16
MaxSecretLen == 64
MaxScanLen == 32
ShownPrefix == 4
MinStars == 8

\* Lengths of the text on the page.
ValueLengths ==
  { MinSecretLen - 1, MinSecretLen, MinSecretLen + 1, MaxScanLen,
    MaxScanLen + 1, MaxSecretLen, MaxSecretLen + 1 }

Base32Sample == << "J", "B", "S", "W", "Y", "3", "D", "P" >>

\* Texts over the base32 alphabet: stride picks the characters.
PageValues ==
  { [ i \in 1 .. len |-> Base32Sample[((i * stride) % Len(Base32Sample)) + 1] ] :
      len \in ValueLengths, stride \in 0 .. 3 }

Repeat(c, n) == [ i \in 1 .. n |-> c ]

\* A secret logged as it is.
Unredacted(secret) == secret

\* line 3259: totpSecret.substring(0, 4) + '*'.repeat(Math.max(length - 4, 8))
Redacted(secret) ==
  SubSeq(secret, 1, Min(ShownPrefix, Len(secret)))
    \o Repeat("*", Max(Len(secret) - ShownPrefix, MinStars))

\* line 3246: `${totpSecret.substring(0, 4)}...`
Abridged(secret) ==
  SubSeq(secret, 1, Min(ShownPrefix, Len(secret))) \o << ".", ".", "." >>

\* line 3216: the test of an extracted value
LooksLikeSecret(value) ==
  Len(value) >= MinSecretLen /\ Len(value) <= MaxSecretLen

\* What generateTOTP's error reads like; the secret is not part of it.
CodegenErrors ==
  { << "Error: ", "I", "n", "v", "a", "l", "i", "d" >>, << "Error: " >> }

\* The search for the secret: strategy 1 (lines 3196-3229) on the elements,
\* strategy 2 (lines 3232-3250) on the page content.
ExtractSecret ==
  /\ kPc = "idle"
  /\ IF kInField /\ LooksLikeSecret(kValue)
       THEN /\ kSecret' = kValue /\ kPc' = "found"
            /\ kLogs' = << << "Found TOTP secret using selector: #iTOTP_Secret" >> >>
       ELSE IF LooksLikeSecret(kValue) /\ Len(kValue) <= MaxScanLen
         THEN /\ kSecret' = kValue /\ kPc' = "found"
              /\ kLogs' = << << "Scanning entire page for TOTP pattern..." >>,
                             << "Found TOTP secret via page scan: " >>
                               \o Abridged(kValue) >>
         ELSE /\ kSecret' = << >> /\ kPc' = "done"
              /\ kLogs' = << << "Scanning entire page for TOTP pattern..." >>,
                             << "Could not find TOTP secret" >> >>
  /\ UNCHANGED << kValue, kInField >>

\* lines 3258-3261: the redacted secret is logged.
LogSecret ==
  /\ kPc = "found"
  /\ kLogs' = Append(kLogs, << "TOTP Secret: " >> \o Redacted(kSecret)
                              \o << " (found via: #iTOTP_Secret)" >>)
  /\ kPc' = "logged"
  /\ UNCHANGED << kValue, kInField, kSecret >>

\* TotpHandler.submitTotpCode with the secret (lines 244-265): the code is
\* submitted, or an error is caught and logged.
SubmitWithSecret(error) ==
  /\ kPc = "logged"
  /\ kLogs' = Append(kLogs,
       IF error = << >> THEN << "Submitted TOTP automatically" >>
       ELSE << "Failed to submit TOTP automatically: " >> \o error)
  /\ kPc' = "done"
  /\ UNCHANGED << kValue, kInField, kSecret >>

\* ------------------------------------------------- HumanTyping.typeEmail
\* typeEmail (src/unnamed/part_001, lines 105-128) splits the address at "@"
\* and enters it with calls of type() and one keystroke for the "@".

VARIABLES
  emPc,       \* position in typeEmail: "idle", "clear", "type", "at", "done"
  emEmail,    \* argument email
  emText,     \* text of the running type() call
  emI,        \* loop index of the running type() call
  emNext,     \* where typeEmail goes on when the type() call returns
  emField,    \* content of the field
  emSince,    \* characters entered since the field was last cleared
  emOk        \* every keystroke so far worked

emailVars == << emPc, emEmail, emText, emI, emNext, emField, emSince, emOk >>

\* The addresses handed to typeEmail: well-formed ones, and ones with no "@",
\* an empty part or a second "@".
Addresses ==
  { << "a", "@", "b" >>, << "a", "b", "@", "c", ".", "d" >>, << "a", "b" >>,
    << "@", "b" >>, << "a", "@" >>, << "a", "@", "b", "@", "c" >> }

\* String.prototype.split('@') (line 106).
RECURSIVE SplitAt(_)
SplitAt(s) ==
  IF \A k \in DOMAIN s : s[k] # "@"
    THEN << s >>
    ELSE LET k == CHOOSE k \in DOMAIN s :
                    s[k] = "@" /\ \A h \in 1 .. k - 1 : s[h] # "@"
         IN  << SubSeq(s, 1, k - 1) >> \o SplitAt(SubSeq(s, k + 1, Len(s)))

\* const [localPart, domain] = email.split('@') (line 106); a missing second
\* part is undefined, which line 108 treats like the empty string.
LocalPart(email) == SplitAt(email)[1]
Domain(email) == IF Len(SplitAt(email)) >= 2 THEN SplitAt(email)[2] ELSE << >>

\* Lines 105-115: the split, and the first call of type(): the whole address
\* if a part is missing, the local part otherwise.
CallTypeEmail(email) ==
  /\ emPc = "idle"
  /\ emEmail' = email /\ emPc' = "clear" /\ emI' = 0
  /\ IF LocalPart(email) = << >> \/ Domain(email) = << >>
       THEN emText' = email /\ emNext' = "done"
       ELSE emText' = LocalPart(email) /\ emNext' = "at"
  /\ UNCHANGED << emField, emSince, emOk >>

\* type(), lines 44-52: locator.clear(), with Control+a and Backspace if it
\* throws: the field is emptied, or only Backspace worked, or no key did.
EmailClear(outcome) ==
  /\ emPc = "clear"
  /\ emField' = CASE outcome = "cleared" -> << >>
                  [] outcome = "backspace" ->
                       SubSeq(emField, 1, Len(emField) - 1)
                  [] OTHER -> emField
  /\ emSince' = << >>
  /\ emOk' = (emOk /\ outcome = "cleared")
  /\ emPc' = "type" /\ emI' = 0
  /\ UNCHANGED << emEmail, emText, emNext >>

\* type(), lines 55-94: one keystroke for text[i], in text order, whether in
\* the for loop or in a burst.
EmailPress(pressed) ==
  /\ emPc = "type" /\ emI < Len(emText)
  /\ emI' = emI + 1
  /\ emField' = IF pressed THEN Append(emField, emText[emI']) ELSE emField
  /\ emSince' = IF pressed THEN Append(emSince, emText[emI']) ELSE emSince
  /\ emOk' = (emOk /\ pressed)
  /\ UNCHANGED << emPc, emEmail, emText, emNext >>

\* type() returns (line 95) to typeEmail: line 111 (return) or line 118.
EmailTypeReturns ==
  /\ emPc = "type" /\ emI = Len(emText)
  /\ emPc' = emNext
  /\ UNCHANGED << emEmail, emText, emI, emNext, emField, emSince, emOk >>

\* Lines 118-127: the keystroke for "@" and the call of type() for the domain.
EmailPressAt(pressed) ==
  /\ emPc = "at"
  /\ emField' = IF pressed THEN Append(emField, "@") ELSE emField
  /\ emSince' = IF pressed THEN Append(emSince, "@") ELSE emSince
  /\ emOk' = (emOk /\ pressed)
  /\ emText' = Domain(emEmail) /\ emNext' = "done" /\ emPc' = "clear"
  /\ emI' = 0
  /\ UNCHANGED emEmail

\* ------------------------------------------- overlapping tryAutoTotp calls
\* Two invocations of tryAutoTotp (TotpHandler.ts, lines 93-114) on one
\* handler with a secret configured. An invocation runs without interruption
\* between two awaits; at an await the other one may run.

VARIABLES
  oPc,          \* position of each invocation
  oAttempts,    \* this.totpAttempts
  oSince,       \* age of this.lastTotpSubmit, in ms
  oSubmitted,   \* whether each invocation typed and submitted a code
  oOverlap      \* an invocation started while the other stood at a page call

overlapVars == << oPc, oAttempts, oSince, oSubmitted, oOverlap >>

Invocations == { 1, 2 }

\* Lines 94-99: the secret and throttle tests, then ensureTotpInput is called.
OverlapCall(p) ==
  /\ oPc[p] = "idle"
  /\ oPc' = [ oPc EXCEPT ![p] = IF Throttled(oSince) THEN "returned false"
                                                     ELSE "ensure" ]
  /\ oOverlap' = ( oOverlap
                   \/ \E q \in Invocations \ { p } :
                        oPc[q] \in { "ensure", "submit" } )
  /\ UNCHANGED << oAttempts, oSince, oSubmitted >>

\* Lines 99-109: ensureTotpInput has answered; the attempts test; the call
\* of submitTotpCode.
OverlapEnsure(p, selector) ==
  /\ oPc[p] = "ensure"
  /\ oPc' = [ oPc EXCEPT ![p] =
                IF ~selector THEN "returned false"
                ELSE IF oAttempts >= MaxTotpAttempts THEN "threw"
                ELSE "submit" ]
  /\ UNCHANGED << oAttempts, oSince, oSubmitted, oOverlap >>

\* Lines 109-112: submitTotpCode has ended, with a code submitted or not;
\* the attempt is counted and lastTotpSubmit stamped; wait(1200) is called.
OverlapBook(p, outcome) ==
  /\ oPc[p] = "submit"
  /\ oSubmitted' = [ oSubmitted EXCEPT ![p] = (outcome = "submitted") ]
  /\ oAttempts' = oAttempts + 1
  /\ oSince' = 0
  /\ oPc' = [ oPc EXCEPT ![p] = "wait" ]
  /\ UNCHANGED oOverlap

\* Line 113: the wait is over, return true.
OverlapReturn(p) ==
  /\ oPc[p] = "wait"
  /\ oSince' = Aged(oSince, PostSubmitWaitMs)
  /\ oPc' = [ oPc EXCEPT ![p] = "returned true" ]
  /\ UNCHANGED << oAttempts, oSubmitted, oOverlap >>

\* d milliseconds pass while no invocation is in its wait.
OverlapTick(d) ==
  /\ oSince < AgeCap
  /\ \A p \in Invocations : oPc[p] # "wait"
  /\ oSince' = Aged(oSince, d)
  /\ UNCHANGED << oPc, oAttempts, oSubmitted, oOverlap >>

\* ------------------------------------------------- error-report endpoint
\* The serverless handler of src/unnamed/part_000 (the handler of
\* src/api/report-error.js is the same without the dedupe cache) with its two
\* module-level maps. Times are kept relative to now: `left` is what remains
\* until a reset or expiry time, negative once that time has passed.

VARIABLES
  rateLimitMap,  \* ip -> [ count, left ]; count 0: no record
  errorCache,    \* error id -> time left until `expires`; -1: no entry
  webhookUrl,    \* process.env.DISCORD_ERROR_WEBHOOK_URL is set
  rResp,         \* the answer to the last request (id: of a duplicate)
  rAdmitted,     \* ip -> requests let through since its window was opened
  rDelivered,    \* error id -> ms since its last delivery to the webhook; -1: none
  rTicks         \* number of time steps taken

reportVars == << rateLimitMap, errorCache, webhookUrl, rResp, rAdmitted,
                 rDelivered, rTicks >>

RATE_LIMIT_WINDOW_MS == 60000
RATE_LIMIT_MAX_REQUESTS == 10
ERROR_TTL_MS == 3600000

ReportTickMs == 30000     \* the short time step
CacheTickMs == 1800000    \* the long time step
MaxTicks == 3             \* time steps in one run

\* Values of the x-forwarded-for header: one address, a list, none.
ForwardedFor == { << "1.1.1.1" >>, << "1.1.1.1", "9.9.9.9" >>, << >> }

\* req.headers['x-forwarded-for']?.split(',')[0]?.trim() || 'unknown'
ClientIp(header) == IF header = << >> THEN "unknown" ELSE header[1]

Ips == { ClientIp(h) : h \in ForwardedFor }

\* payload.error as a sequence of words; << >>: the field is missing.
Payloads == { << "boom", "0x1f" >>, << "boom", "0x2a" >>, << "crash" >>, << >> }

\* normalizeForId (lines 46-58) on these texts: hex pointers are removed.
NormalizeForId(text) ==
  SelectSeq(text, LAMBDA w : w \notin { "0x1f", "0x2a" })

\* computeErrorId (lines 61-77): the digest of the normalized text, taken to
\* be free of collisions.
ComputeErrorId(error) == NormalizeForId(error)

ErrorIds == { ComputeErrorId(p) : p \in Payloads \ { << >> } }

NoRecord == [ count |-> 0, left |-> -1 ]
NoResp == [ ip |-> "none", id |-> << >>, status |-> 0, duplicate |-> FALSE,
            posted |-> FALSE ]

\* A limit test that lets one more request through.
RateExceededLate(count) == count > RATE_LIMIT_MAX_REQUESTS

\* line 22: record.count >= RATE_LIMIT_MAX_REQUESTS
RateExceeded(count) == count >= RATE_LIMIT_MAX_REQUESTS

\* line 17: !record || now > record.resetTime
WindowOver(record) == record.count = 0 \/ record.left < 0

\* isRateLimited(ip), lines 13-28: the answer and the record it leaves.
IsRateLimited(record) ==
  IF WindowOver(record)
    THEN [ limited |-> FALSE,
           record |-> [ count |-> 1, left |-> RATE_LIMIT_WINDOW_MS ] ]
    ELSE IF RateExceeded(record.count)
      THEN [ limited |-> TRUE, record |-> record ]
      ELSE [ limited |-> FALSE,
             record |-> [ record EXCEPT !.count = @ + 1 ] ]

\* The handler up to the rate limit (lines 79-100): OPTIONS and other methods
\* are answered at once, a POST is counted.
\* Lines 102-174 for a request let through: the webhook URL, the payload, the
\* dedupe cache (whose duplicate counter is only logged and is left out), and
\* the post to the webhook, which delivers or throws.
Handler(method, header, payload, delivered) ==
  LET ip == ClientIp(header)
      limit == IsRateLimited(rateLimitMap[ip])
      id == ComputeErrorId(payload)
      answer(status, dup, posted) ==
        rResp' = [ ip |-> ip, id |-> IF dup THEN id ELSE << >>,
                   status |-> status, duplicate |-> dup, posted |-> posted ]
  IN  /\ webhookUrl' = webhookUrl /\ rTicks' = rTicks
      /\ IF method # "POST"
           THEN /\ answer(IF method = "OPTIONS" THEN 200 ELSE 405, FALSE, FALSE)
                /\ UNCHANGED << rateLimitMap, errorCache, rAdmitted, rDelivered >>
           ELSE /\ rateLimitMap' = [ rateLimitMap EXCEPT ![ip] = limit.record ]
                /\ rAdmitted' =
                     [ rAdmitted EXCEPT ![ip] =
                         IF limit.limited THEN @
                         ELSE IF WindowOver(rateLimitMap[ip]) THEN 1 ELSE @ + 1 ]
                /\ CASE limit.limited ->
                          /\ answer(429, FALSE, FALSE)
                          /\ UNCHANGED << errorCache, rDelivered >>
                     [] ~limit.limited /\ ~webhookUrl ->
                          /\ answer(503, FALSE, FALSE)
                          /\ UNCHANGED << errorCache, rDelivered >>
                     [] ~limit.limited /\ webhookUrl /\ payload = << >> ->
                          /\ answer(400, FALSE, FALSE)
                          /\ UNCHANGED << errorCache, rDelivered >>
                     [] OTHER ->
                          IF errorCache[id] > 0
                            THEN /\ answer(200, TRUE, FALSE)
                                 /\ UNCHANGED << errorCache, rDelivered >>
                            ELSE /\ errorCache' =
                                      [ errorCache EXCEPT ![id] = ERROR_TTL_MS ]
                                 /\ answer(IF delivered THEN 200 ELSE 500,
                                           FALSE, TRUE)
                                 /\ rDelivered' =
                                      IF delivered
                                        THEN [ rDelivered EXCEPT ![id] = 0 ]
                                        ELSE rDelivered

\* d milliseconds pass between two requests.
ReportTick(d) ==
  /\ rTicks < MaxTicks
  /\ rTicks' = rTicks + 1
  /\ rateLimitMap' =
       [ ip \in Ips |->
           [ rateLimitMap[ip] EXCEPT !.left = Max(@ - d, -1) ] ]
  /\ errorCache' =
       [ id \in ErrorIds |->
           IF errorCache[id] = -1 THEN -1 ELSE Max(errorCache[id] - d, 0) ]
  /\ rDelivered' =
       [ id \in ErrorIds |->
           IF rDelivered[id] = -1 THEN -1
           ELSE Min(rDelivered[id] + d, ERROR_TTL_MS + 1) ]
  /\ UNCHANGED << webhookUrl, rResp, rAdmitted >>

\* --------------------------------------------------------- specifications
vars == << totpVars, retryVars, createVars, inputVars, typingVars, postVars,
          namesVars, birthVars, delayVars,
          secretVars,
          emailVars,
          overlapVars,
          reportVars >>

TotpQuiet ==
  TotpInit /\ ~parallel /\ ~codeInput /\ displaySign = "absent"

\* One component runs at a time: the one named starts in its initial states,
\* the others are at rest and stay so.
Start(component) ==
  /\ IF component = "totp" THEN TotpInit ELSE TotpQuiet
  /\ IF component = "retry" THEN RetryInit ELSE RetryQuiet
  /\ IF component = "create" THEN CreateInit ELSE CreateQuiet
  /\ IF component = "input" THEN InputInit
       ELSE IF component = "reveal" THEN RevealInit ELSE InputQuiet
  /\ IF component = "typing" THEN TypingInit ELSE TypingQuiet
  /\ qPc = "idle" /\ qI = 0 /\ qClicks = << >>
  /\ IF component = "post"
       THEN qPrompts \in { << >> } \cup { << p >> : p \in Prompts }
                        \cup { << p, q >> : p, q \in Prompts }
       ELSE qPrompts = << >>
  /\ nPc = "idle" /\ nI = 1 /\ nLog = << >>
  /\ nPage \in NamePages /\ nOn = nPage.on
  /\ bOrder = << >> /\ bPc = "idle" /\ bI = 1 /\ bLog = << >>
  /\ bResult = Pending
  /\ bBoxes \in [ month : Boxes, day : Boxes ]
  /\ component # "birth" => bBoxes = [ month |-> << >>, day |-> << >> ]
  /\ dSpeed = 10 /\ dDraw = 0 /\ dDelay = -1
  /\ component # "names" =>
       nPage = [ present |-> FALSE, on |-> FALSE, usable |-> FALSE,
                 indicator |-> "none", label |-> FALSE ]
  /\ kPc = "idle" /\ kSecret = << >> /\ kLogs = << >>
  /\ kValue \in PageValues /\ kInField \in BOOLEAN
  /\ component # "secret" =>
       kValue = Repeat("J", MinSecretLen) /\ kInField
  /\ emPc = "idle" /\ emEmail = << >> /\ emText = << >> /\ emI = 0
  /\ emNext = "done" /\ emSince = << >> /\ emOk = TRUE
  /\ emField \in { << >>, << "x", "y" >> }
  /\ component # "email" => emField = << >>
  /\ oPc = [ p \in Invocations |-> "idle" ]
  /\ oSubmitted = [ p \in Invocations |-> FALSE ] /\ oOverlap = FALSE
  /\ oAttempts \in 0 .. MaxTotpAttempts /\ oSince \in { 0, AgeCap }
  /\ component # "overlap" => (oAttempts = 0 /\ oSince = AgeCap)
  /\ rateLimitMap = [ ip \in Ips |-> NoRecord ]
  /\ errorCache = [ id \in ErrorIds |-> -1 ]
  /\ rResp = NoResp /\ rAdmitted = [ ip \in Ips |-> 0 ]
  /\ rDelivered = [ id \in ErrorIds |-> -1 ] /\ rTicks = 0
  /\ webhookUrl \in BOOLEAN
  /\ component # "report" => webhookUrl

Frame(component) ==
  /\ IF component = "totp" THEN TRUE ELSE UNCHANGED totpVars
  /\ IF component = "retry" THEN TRUE ELSE UNCHANGED retryVars
  /\ IF component = "create" THEN TRUE ELSE UNCHANGED createVars
  /\ IF component = "input" THEN TRUE ELSE UNCHANGED inputVars
  /\ IF component = "typing" THEN TRUE ELSE UNCHANGED typingVars
  /\ IF component = "post" THEN TRUE ELSE UNCHANGED postVars
  /\ IF component = "names" THEN TRUE ELSE UNCHANGED namesVars
  /\ IF component = "birth" THEN TRUE ELSE UNCHANGED birthVars
  /\ IF component = "delay" THEN TRUE ELSE UNCHANGED delayVars
  /\ IF component = "secret" THEN TRUE ELSE UNCHANGED secretVars
  /\ IF component = "email" THEN TRUE ELSE UNCHANGED emailVars
  /\ IF component = "overlap" THEN TRUE ELSE UNCHANGED overlapVars
  /\ IF component = "report" THEN TRUE ELSE UNCHANGED reportVars

TotpNext ==
  \/ \E secret \in SecretInputs : SetTotpSecret(secret) /\ Frame("totp")
  \/ Reset /\ Frame("totp")
  \/ \E arg \in { Undefined, TheSecret } : CallTryAutoTotp(arg) /\ Frame("totp")
  \/ CallHandle2FA /\ Frame("totp")
  \/ HDismissDone /\ Frame("totp")
  \/ TryEnsure /\ Frame("totp")
  \/ \E outcome \in SubmitOutcomes : TrySubmit(outcome) /\ Frame("totp")
  \/ TryBook /\ Frame("totp")
  \/ TryWaitDone /\ Frame("totp")
  \/ FetchFound1 /\ Frame("totp")
  \/ FetchTimeout1 /\ Frame("totp")
  \/ \E found \in BOOLEAN : FetchResendProbe(found) /\ Frame("totp")
  \/ FetchResendWaitDone /\ Frame("totp")
  \/ FetchConfirmDone /\ Frame("totp")
  \/ FetchFound2 /\ Frame("totp")
  \/ FetchTimeout2 /\ Frame("totp")
  \/ ApApproved /\ Frame("totp")
  \/ ApExpired /\ Frame("totp")
  \/ \E found \in BOOLEAN : ApRefresh(found) /\ Frame("totp")
  \/ \E otcVisible, typed \in BOOLEAN : OperatorAnswers(otcVisible, typed)
       /\ Frame("totp")
  \/ PromptTimeout /\ Frame("totp")
  \/ Return /\ Frame("totp")
  \/ Tick(TickMs) /\ Frame("totp")
  \/ PageChange /\ Frame("totp")

RetryNext ==
  \/ \E mr \in 0 .. MaxRetriesArg, init \in { 0, DefaultInitialDelayMs },
        micro \in BOOLEAN : CallRetryOperation("operation", mr, init, micro)
       /\ UNCHANGED twin /\ Frame("retry")
  \/ \E site \in CallSites :
       CallRetryOperation(site.context, site.maxRetries, site.initialDelayMs,
                          site.enableMicroGestures)
       /\ UNCHANGED twin /\ Frame("retry")
  \/ OperationReturns /\ UNCHANGED << twin, context >> /\ Frame("retry")
  \/ \E r1, r2 \in RandomDraws, t1, t2 \in TwinDraws :
       OperationThrows(r1, r2, t1, t2) /\ UNCHANGED context /\ Frame("retry")
  \/ \E r3 \in RandomDraws :
       DelayDone(r3) /\ UNCHANGED << twin, context >> /\ Frame("retry")
  \/ DelayFails /\ UNCHANGED << twin, context >> /\ Frame("retry")
  \/ GestureDone /\ UNCHANGED << twin, context >> /\ Frame("retry")
  \/ RetryReturn /\ UNCHANGED context /\ Frame("retry")

CreateNext ==
  \/ StartCreate /\ UNCHANGED ident /\ Frame("create")
  \/ \E outcome \in { "ok", "threw" }, cond \in PageConds :
       NavigateToSignup(outcome, cond)
       /\ UNCHANGED ident /\ Frame("create")
  \/ \E outcome \in { "ok", "threw" }, cond \in PageConds :
       ClickCreateAccount(outcome, cond)
       /\ UNCHANGED ident /\ Frame("create")
  \/ \E outcome \in { "ok", "failed", "threw" }, answer \in IdAnswers :
       GenerateAndFillEmail(outcome, answer)
       /\ Frame("create")
  \/ HandleEmailErrors /\ Frame("create")
  \/ \E filled \in BOOLEAN, answer \in IdAnswers :
       HandleReservedDomain(filled, answer)
       /\ Frame("create")
  \/ \E filled \in BOOLEAN, answer \in IdAnswers :
       HandleEmailTakenNoSuggestion(filled, answer)
       /\ Frame("create")
  \/ \E usable, errorStill, nextEnabled, finalError \in BOOLEAN,
        cond \in PageConds :
       HandleEmailTakenSuggestion(usable, errorStill, nextEnabled, finalError,
                                  cond)
       /\ Frame("create")
  \/ \E outcome \in { "ok", "failed", "threw" } : FillPassword(outcome)
       /\ UNCHANGED ident /\ Frame("create")
  \/ \E outcome \in { "ok", "threw" }, cond \in PageConds, url \in BOOLEAN :
       ClickNextClick(outcome, cond, url)
       /\ UNCHANGED ident /\ Frame("create")
  \/ VerifyNoErrors /\ UNCHANGED ident /\ Frame("create")
  \/ ClickNextChecked /\ UNCHANGED ident /\ Frame("create")
  \/ \E outcome \in { "ok", "failed" }, cond \in PageConds :
       FillBirthdate(outcome, cond)
       /\ UNCHANGED ident /\ Frame("create")
  \/ \E nextEnabled \in BOOLEAN : FillBirthdateChecked(nextEnabled)
       /\ UNCHANGED ident /\ Frame("create")
  \/ \E outcome \in { "ok", "failed" }, cond \in PageConds :
       FillNames(outcome, cond)
       /\ UNCHANGED ident /\ Frame("create")
  \/ \E nextEnabled \in BOOLEAN : FillNamesChecked(nextEnabled)
       /\ UNCHANGED ident /\ Frame("create")
  \/ \E captcha \in BOOLEAN : WaitForCaptcha(captcha)
       /\ UNCHANGED ident /\ Frame("create")
  \/ CaptchaStillPresent /\ UNCHANGED ident /\ Frame("create")
  \/ \E outcome \in { "solved", "error", "timeout" }, cond \in PageConds :
       WaitForCaptchaSolved(outcome, cond)
       /\ UNCHANGED ident /\ Frame("create")
  \/ WaitForAccountCreation /\ UNCHANGED ident /\ Frame("create")
  \/ \E outcome \in { "ok", "threw" }, clicks \in 0 .. 1 :
       HandlePostCreationQuestions(outcome, clicks)
       /\ UNCHANGED ident /\ Frame("create")
  \/ \E cond \in PageConds, reached \in Reachable :
       VerifyAccountActive(cond, reached)
       /\ UNCHANGED ident /\ Frame("create")
  \/ \E outcome \in { "ok", "threw" } : SaveAndReturn(outcome)
       /\ UNCHANGED ident /\ Frame("create")
  \/ Close /\ UNCHANGED ident /\ Frame("create")

InputNext ==
  \/ CallEnsureTotpInput /\ Frame("input")
  \/ \E els \in RevealedPages, headingHint \in BOOLEAN, next \in ControlSets :
       EnsureRound(FALSE, els, headingHint, next) /\ Frame("input")
  \/ ResolveSubmit /\ Frame("input")

RevealNext ==
  \/ CallEnsureTotpInput /\ Frame("input")
  \/ CallEnsureTotpInputAgain /\ Frame("input")
  \/ \E els \in RevealedPages, headingHint \in BOOLEAN, next \in ControlSets :
       EnsureRound(FALSE, els, headingHint, next) /\ Frame("input")
  \/ EnsureRound(TRUE, inputs, heading, controls) /\ Frame("input")
  \/ ResolveSubmit /\ Frame("input")

TypingNext ==
  \/ \E value \in DOMAIN TextEntries, text \in Texts : CallType(value, text)
       /\ Frame("typing")
  \/ \E outcome \in { "cleared", "backspace", "kept" } : ClearField(outcome)
       /\ Frame("typing")
  \/ \E pressed \in BOOLEAN, burstLength \in { 0, 2, 3 } :
       TypeChar(pressed, burstLength) /\ Frame("typing")
  \/ \E pressed \in BOOLEAN : BurstChar(pressed) /\ Frame("typing")
  \/ TypeReturns /\ Frame("typing")

PostNext ==
  \/ CallHandlePostCreationQuestions /\ Frame("post")
  \/ \E threw \in BOOLEAN : HandlePasskeyPrompt(threw) /\ Frame("post")
  \/ \E threw \in BOOLEAN : KmsiPass(threw) /\ Frame("post")
  \/ \E threw \in BOOLEAN : GenericPass(threw) /\ Frame("post")

NamesNext ==
  \/ CallFillNames /\ Frame("names")
  \/ UncheckMarketingOptIn /\ Frame("names")
  \/ \E outcome \in { "toggled", "no effect", "threw" } :
       Strategy(outcome) /\ Frame("names")
  \/ \E ok \in BOOLEAN : NamesStep(ok) /\ Frame("names")

BirthNext ==
  \/ CallFillBirthdate /\ Frame("birth")
  \/ \E ok \in BOOLEAN : BirthdateStep(ok) /\ Frame("birth")

DelayNext ==
  \E speed \in PresetSpeeds, r \in 0 .. RandomScale - 1 :
    ComputeCharDelay(speed, r) /\ Frame("delay")

SpecTotp == Start("totp") /\ [][TotpNext]_vars

SpecRetry == Start("retry") /\ [][RetryNext]_vars

SpecCreate == Start("create") /\ [][CreateNext]_vars

SpecInput == Start("input") /\ [][InputNext]_vars

SpecReveal == Start("reveal") /\ [][RevealNext]_vars

SpecTyping == Start("typing") /\ [][TypingNext]_vars

\* Every await of type() settles: a step that can be taken is taken.
SpecTypingFair == SpecTyping /\ WF_vars(TypingNext)

SpecPost == Start("post") /\ [][PostNext]_vars

SpecNames == Start("names") /\ [][NamesNext]_vars

SpecBirth == Start("birth") /\ [][BirthNext]_vars

SpecDelay == Start("delay") /\ [][DelayNext]_vars

SecretNext ==
  \/ ExtractSecret /\ Frame("secret")
  \/ LogSecret /\ Frame("secret")
  \/ \E error \in { << >> } \cup CodegenErrors :
       SubmitWithSecret(error) /\ Frame("secret")

SpecSecret == Start("secret") /\ [][SecretNext]_vars

EmailNext ==
  \/ \E email \in Addresses : CallTypeEmail(email) /\ Frame("email")
  \/ \E outcome \in { "cleared", "backspace", "kept" } : EmailClear(outcome)
       /\ Frame("email")
  \/ \E pressed \in BOOLEAN : EmailPress(pressed) /\ Frame("email")
  \/ EmailTypeReturns /\ Frame("email")
  \/ \E pressed \in BOOLEAN : EmailPressAt(pressed) /\ Frame("email")

SpecEmail == Start("email") /\ [][EmailNext]_vars

OverlapNext ==
  \/ \E p \in Invocations : OverlapCall(p) /\ Frame("overlap")
  \/ \E p \in Invocations, selector \in BOOLEAN : OverlapEnsure(p, selector)
       /\ Frame("overlap")
  \/ \E p \in Invocations, outcome \in SubmitOutcomes : OverlapBook(p, outcome)
       /\ Frame("overlap")
  \/ \E p \in Invocations : OverlapReturn(p) /\ Frame("overlap")
  \/ OverlapTick(TickMs) /\ Frame("overlap")

SpecOverlap == Start("overlap") /\ [][OverlapNext]_vars

\* Requests of all clients with one report text, at short intervals.
ReportNext ==
  \/ \E method \in { "OPTIONS", "POST" }, header \in ForwardedFor,
        payload \in { << "boom", "0x1f" >>, << >> }, delivered \in BOOLEAN :
       Handler(method, header, payload, delivered) /\ Frame("report")
  \/ ReportTick(ReportTickMs) /\ Frame("report")

SpecReport == Start("report") /\ [][ReportNext]_vars

\* Requests of one client with all report texts, at long intervals.
DedupeNext ==
  \/ \E method \in { "GET", "POST" }, payload \in Payloads,
        delivered \in BOOLEAN :
       Handler(method, << "1.1.1.1" >>, payload, delivered) /\ Frame("report")
  \/ ReportTick(CacheTickMs) /\ Frame("report")

SpecDedupe == Start("report") /\ [][DedupeNext]_vars

\* ------------------------------------------------- properties: TotpHandler
\* The tryAutoTotp invocations of the running call that ran with three
\* submissions already made since the last reset()/setTotpSecret(), with a secret
\* and with the code input on the page.
FourthAttempts ==
  { i \in DOMAIN obs.tries :
      obs.subsBefore = MaxTotpAttempts /\ obs.tries[i].hasSecret
        /\ obs.tries[i].input }

\* C1, as stated: any two consecutive automatic code submissions of one handler
\* are at least 5000 ms apart.
C1_AnyTwoSubmissionsApart == obs.gap = -1 \/ obs.gap >= throttleMs

\* C1, amended: two consecutive automatic code submissions with no reset() and no
\* setTotpSecret() between them are at least 5000 ms apart.
C1_SubmissionsApartUnlessReset ==
  (obs.gap # -1 /\ ~obs.gapReset) => obs.gap >= throttleMs

\* C1 witness: a call submits a code after an earlier submission, with no reset
\* between the two.
C1_SecondSubmissionNoReset == obs.subs = 1 /\ obs.gap # -1 /\ ~obs.gapReset

\* C2, as stated: after three submissions, the next automatic attempt with the
\* code input present submits nothing and throws the terminal error.
C2_FourthAttemptRaises ==
  /\ realSubs <= MaxTotpAttempts
  /\ \A i \in FourthAttempts :
       obs.tries[i].err = ErrTotpStillPresent /\ ~obs.tries[i].typed

\* C2, amended: no fourth submission is ever made; the next attempt throws the
\* terminal error if it is made at least 5000 ms after the last submission was
\* recorded, and inside that window it returns false without an error; the
\* terminal error does not carry the word the AFK test looks for.
C2_FourthAttemptRaisesUnlessThrottled ==
  /\ realSubs <= MaxTotpAttempts
  /\ \A i \in FourthAttempts :
       /\ ~obs.tries[i].typed
       /\ ~obs.tries[i].throttled => obs.tries[i].err = ErrTotpStillPresent
       /\ obs.tries[i].throttled =>
            obs.tries[i].err = NoError /\ ~obs.tries[i].ret
  /\ ~MessageIncludes(ErrTotpStillPresent, "timeout")
  /\ MessageIncludes(ErrPromptTimeout, "timeout")

\* C2 witness: a fourth attempt outside the throttle window has thrown.
C2_FourthAttemptThrew ==
  \E i \in FourthAttempts :
    ~obs.tries[i].throttled /\ obs.tries[i].err = ErrTotpStillPresent

\* C3, as stated: when the manual prompt timed out, handle2FA ends by raising an
\* error labelled as a timeout to its caller.
C3_PromptTimeoutRaised ==
  (tPc = "done" /\ obs.promptTimedOut) => MessageIncludes(obs.raised, "timeout")

\* ---------------------------------------------- properties: retryOperation
\* C4: retryOperation invokes the operation at most maxRetries times; it returns
\* the result of the first invocation that does not throw, which is the last
\* invocation it makes; it returns null exactly when maxRetries invocations were
\* made and all of them threw; it never lets the operation's error through.
C4_RetryOperationContract ==
  /\ Len(outcomes) <= Max(maxRetries, 0)
  /\ \A k \in 1 .. Len(outcomes) - 1 : outcomes[k] = "threw"
  /\ rPc = "returned" =>
       /\ rResult = Null <=>
            ( Len(outcomes) = Max(maxRetries, 0)
              /\ \A k \in DOMAIN outcomes : outcomes[k] = "threw" )
       /\ rResult # Null =>
            ( outcomes[Len(outcomes)] = "returned"
              /\ rResult = OperationResult(Len(outcomes)) )
  /\ rThrown # ErrOperation

\* C4 witness: the last allowed invocation succeeded after earlier ones threw.
C4_SucceededOnLastAttempt ==
  /\ rPc = "returned" /\ rResult # Null
  /\ maxRetries = DefaultMaxRetries /\ Len(outcomes) = maxRetries

\* ------------------------------------------------------ properties: create
\* C5: once the code has detected a blocked or terminal outcome, create() acts
\* on the page no more, starts no stage, and does not close the page: the page
\* is closed only by the owner, after create() has returned.
C5_NothingAfterDetection ==
  cObs.detected # "none" =>
    /\ cObs.pageActions = cObs.actionsAtDetect
    /\ Len(cObs.stageLog) = cObs.stagesAtDetect
    /\ pageClosed => cPc = "returned"
    /\ cResult # Record

\* C5 witness: clickNext found the rate-limit block and create() is held.
C5_HeldAfterRateLimit ==
  cObs.detected = "rateLimit" /\ cPc = "suspended" /\ nextStep = "names"

\* C6, as stated: once the "temporarily unavailable" indicator has shown after a
\* stage's action, no later stage starts and the page is acted on no more.
C6_UnavailableHalts ==
  cObs.unavailAt # 0 =>
    /\ Len(cObs.stageLog) = cObs.unavailAt
    /\ cObs.pageActions = cObs.actionsAtUnavail

\* C7, as stated: no outcome leaves create() suspended forever.
C7_NeverSuspended == cPc # "suspended"

C10_AtMostFiveAlternates ==
  /\ retryCount <= MAX_EMAIL_RETRIES
  /\ cObs.alternates <= MAX_EMAIL_RETRIES
  /\ retryCount = MAX_EMAIL_RETRIES =>
       cPc \in { "email_errors", "suspended" }

\* C10 witness: five rounds were used and the workflow is held.
C10_RoundsExhausted ==
  retryCount = MAX_EMAIL_RETRIES /\ cPc = "suspended" /\ cObs.alternates = 5

\* ------------------------------------------- properties: code-input resolution
\* C9: whenever ensureTotpInput (through findFirstTotpInput) has returned a
\* selector, the input it names has neither type password nor type email, in
\* any letter case, and its name contains none of loginfmt, passwd, email and
\* login, whatever positive code-related signals the input also carries.
C9_NeverLoginField ==
  (iPc = "returned" /\ foundAt # 0) =>
    /\ inputs[foundAt].type \notin
         { Lit.PasswordMixed, Lit.password, Lit.email }
    /\ inputs[foundAt].name \notin
         { Lit.loginfmt, Lit.PasswdMixed, Lit.userEmail, Lit.loginCode }

\* A page whose first input is a password field carrying positive signals,
\* for which a later, legitimate input was returned.
C9_SkippedPasswordField ==
  /\ iPc = "returned" /\ foundAt = 2
  /\ inputs[1].type = Lit.PasswordMixed
  /\ inputs[1].autocomplete = Lit.oneTimeCode
  /\ inputs[1].visible

\* ------------------------------------------------ properties: identifier stage
\* C11, as stated: once the identifier resubmitted after a reserved-domain
\* error is accepted (no error shown) and handleEmailErrors has looked at it,
\* the resubmitted identifier is local@outlook.com with the local part of the
\* rejected one, the stage has returned exactly it and the password stage
\* has started.
C11_ReservedRecoveryReturns ==
  (ident.via = "reserved" /\ idError = "none" /\ cPc # "email_errors") =>
    /\ ident.email = << ident.replaced[1], "@", "outlook.com" >>
    /\ ident.result = ident.email
    /\ Len(cObs.stageLog) >= 4

C13_NotPresentReturns ==
  (tOp = "handle2FA" /\ obs.manual) =>
    \E i \in DOMAIN obs.tries : obs.tries[i].input

\* C14, as stated: the manual prompt is issued only without a secret or with
\* three automatic attempts made, and an exhausted automatic path (a fourth
\* attempt outside the throttle window, the code input present) ends in
\* manual entry.
C14_PromptOnlyWithoutSecretOrExhausted ==
  /\ (tOp = "handle2FA" /\ obs.manual) =>
       (currentTotpSecret = Undefined \/ totpAttempts >= MaxTotpAttempts)
  /\ \A i \in FourthAttempts :
       (tOp = "handle2FA" /\ tPc = "done" /\ ~obs.tries[i].throttled) =>
         obs.manual

\* C14, amended: the manual prompt is issued only after both tryAutoTotp
\* invocations of the handle2FA call returned false, each for want of a
\* secret, inside the throttle window or for want of a code input; and an
\* exhausted automatic path with the code input present never ends in manual
\* entry.
C14_PromptOnlyAfterFailedAttempts ==
  /\ (tOp = "handle2FA" /\ obs.manual) =>
       /\ Len(obs.tries) = 2
       /\ \A i \in DOMAIN obs.tries :
            /\ ~obs.tries[i].ret /\ obs.tries[i].err = NoError
            /\ \/ ~obs.tries[i].hasSecret
               \/ obs.tries[i].throttled
               \/ ~obs.tries[i].input
  /\ \A i \in FourthAttempts :
       (tOp = "handle2FA" /\ ~obs.tries[i].throttled) => ~obs.manual

\* C14 witness: the operator is prompted although a secret is configured and
\* fewer than three automatic attempts were made.
C14_PromptedWithSecret ==
  /\ tOp = "handle2FA" /\ tPc = "sms_prompt" /\ obs.manual
  /\ currentTotpSecret = TheSecret /\ totpAttempts < MaxTotpAttempts

\* C15: approveAuthenticator waits at most 6 times for the login form to go
\* away; it returns at once when the form goes away; every wait that expired
\* is followed by a request for a fresh number; after 6 expired waits or a
\* failed refresh it returns normally, a warning logged; nothing is raised or
\* caught, and the resend loop inside a refresh is bounded too.
C15_ApproveBounded ==
  (tOp = "handle2FA" /\ obs.waits > 0) =>
    /\ obs.waits <= MaxApproveCycles
    /\ resendAttempts <= MaxResendAttempts
    /\ obs.raised = NoError /\ obs.caught = NoError
    /\ obs.approved => (tPc = "done" /\ obs.warn = "none"
                          /\ obs.refreshes = obs.waits - 1)
    /\ tPc \in { "ap_wait", "ap_retry" } => obs.refreshes = obs.waits - 1
    /\ (tPc # "ap_wait" /\ tPc # "ap_retry" /\ ~obs.approved) =>
         obs.refreshes = obs.waits
    /\ tPc = "done" =>
         \/ obs.approved
         \/ obs.warn = "could not refresh"
         \/ obs.warn = "max cycles reached" /\ obs.waits = MaxApproveCycles
    /\ obs.warn # "none" => tPc = "done"
    /\ ~obs.manual

\* C15 witness: six waits expired, each refresh gave a number, and the call
\* ended with the max-cycles warning.
C15_SixCyclesExpired ==
  /\ tOp = "handle2FA" /\ tPc = "done"
  /\ obs.waits = MaxApproveCycles /\ obs.refreshes = MaxApproveCycles
  /\ obs.warn = "max cycles reached" /\ obs.raised = NoError

\* C17: create() returns the record, and saves it, only if the verification
\* stage reached the home surface and found the signed-in indicator.
C17_RecordOnlyIfVerified ==
  (cResult = Record \/ saved > 0) => cObs.reached = "home, signed in"

\* C18: saveAccount is called at most once, only after every stage through
\* verification has run; a run that returned has saved exactly when it
\* returned the record; and a post-setup that threw does not prevent either.
C18_SavedOnceWithRecord ==
  /\ saved <= 1
  /\ saved = 1 => (cObs.stageLog = Stages /\ Len(cObs.stageDone) = Len(Stages)
                     /\ cPc = "returned")
  /\ cPc = "returned" => (saved = 1 <=> cResult = Record)
  /\ cObs.postSetup # "none" => (saved = 1 /\ cResult = Record)
  /\ cResult = Pending => saved = 0

\* C18 witness: the post-setup threw, and the record was saved and returned.
C18_SavedAfterPostSetupThrew ==
  /\ cPc = "returned" /\ cObs.postSetup = "threw"
  /\ saved = 1 /\ cResult = Record /\ cObs.stageLog = Stages

\* C16: while a passkey prompt is displayed, only a decline control of it is
\* ever clicked, never its primary control, the "Stay signed in?" handling
\* included.
C16_PasskeyNeverAccepted ==
  \A i \in DOMAIN qClicks :
    qClicks[i].kind = "passkey" => qClicks[i].control # "primary"

\* C19: with the marketing checkbox present and checked when the name stage
\* starts, it is unchecked before the first name and the last name are typed
\* and the form is validated for submission; no step of the stage, and so no
\* successful end of it, sees the checkbox checked.
C19_ToggleOffBeforeNames ==
  (nPage.present /\ nPage.on) =>
    \A i \in DOMAIN nLog :
      (\E k \in DOMAIN NameSteps : nLog[i].what = NameSteps[k]) => ~nLog[i].on

\* C20: the year is entered only after the day and the month were both filled
\* successfully, in the order the layout detection chose; once the day or the
\* month has failed the year is never entered and the stage returns null.
C20_YearAfterDayAndMonth ==
  LET monthFirst == bOrder # << >> /\ bOrder[1] = "month"
      At(what, ok) == { i \in DOMAIN bLog : bLog[i] = [ what |-> what, ok |-> ok ] }
  IN  /\ \A i \in At("year", TRUE) \cup At("year", FALSE) :
           \E j \in At("month", TRUE), k \in At("day", TRUE) :
             /\ j < i /\ k < i
             /\ j < k <=> monthFirst
      /\ (At("month", FALSE) \cup At("day", FALSE) # { }) =>
           /\ At("year", TRUE) \cup At("year", FALSE) = { }
           /\ bPc = "done" /\ bResult = Null
      /\ bResult = Record =>
           (At("year", TRUE) # { } /\ At("validate", TRUE) # { })

\* C20 witness: a page with the month button left of the day button on one
\* line; month, day and year were filled in that order.
C20_MonthDayYearFilled ==
  /\ bPc = "done" /\ bResult = Record
  /\ bBoxes.month # << >> /\ bBoxes.day # << >>
  /\ bBoxes.month[2] = bBoxes.day[2] /\ bBoxes.month[1] < bBoxes.day[1]
  /\ Len(bLog) = 4
  /\ bLog[1].what = "month" /\ bLog[2].what = "day" /\ bLog[3].what = "year"

C22_DelaysDiffer ==
  rPc = "delay" => humanDelay # twin.delay

\* C22, amended: two runs stepped side by side wait the same delay at equal
\* attempt indices exactly when their random draws add up to the same whole
\* millisecond; with any other draws the delays differ.
C22_DelaysDifferUnlessSameJitter ==
  LET JitterMs(d) ==
        (d[1] * BaseJitterMs + d[2] * VarianceSpanMs) \div RandomScale
  IN  rPc = "delay" =>
        ( humanDelay = twin.delay
            <=> JitterMs(twin.draws) = JitterMs(twin.twinDraws) )

\* C22 witness: the two runs drew different numbers and wait the same delay.
C22_SameDelayOtherDraws ==
  /\ rPc = "delay" /\ attempt = 2
  /\ twin.draws # twin.twinDraws
  /\ humanDelay = twin.delay

\* C23: the wait after failed attempt k lies in
\* [initialDelayMs + 800k - 500, initialDelayMs + 800k + 1000), and there is
\* no wait after the last failed attempt.
C23_DelayGrowsByFixedStep ==
  rPc = "delay" =>
    /\ attempt < maxRetries
    /\ Len(outcomes) = attempt /\ outcomes[attempt] = "threw"
    /\ initialDelayMs + AttemptStepMs * attempt - VarianceShiftMs
         <= humanDelay
    /\ humanDelay < initialDelayMs + AttemptStepMs * attempt
                      + BaseJitterMs + VarianceSpanMs - VarianceShiftMs

\* C23 witness: the wait after the third failed attempt with the largest
\* draws, one millisecond below the upper end.
C23_LongestThirdDelay ==
  /\ rPc = "delay" /\ attempt = 3
  /\ humanDelay = initialDelayMs + AttemptStepMs * 3
                    + BaseJitterMs + VarianceSpanMs - VarianceShiftMs - 2

\* C24: with enableMicroGestures false no micro-gesture runs between the
\* attempts, and the retries that open the day and the month dropdown run
\* with it false.
C24_NoGestureWhenDisabled ==
  /\ ~enableMicroGestures => gestures = 0 /\ rPc # "gesture"
  /\ context \in { "DAY_DROPDOWN_OPEN", "MONTH_DROPDOWN_OPEN" }
       => ~enableMicroGestures /\ gestures = 0

\* C24 witness: opening the day dropdown failed three times and no gesture
\* ran in the two waits between the attempts.
C24_DayDropdownGaveUp ==
  /\ context = "DAY_DROPDOWN_OPEN" /\ rPc = "returned"
  /\ outcomes = << "threw", "threw", "threw" >>
  /\ gestures = 0 /\ humanDelay > 0

\* ------------------------------------------ properties: element resolution
\* C25, as stated: a click or a resolved submit control is the first selector
\* of its list with a visible target, clickFirstVisibleSelector clicks at
\* most once, and the input findFirstTotpInput returned is the target of the
\* first selector that has a visible target.
C25_FirstVisibleWins ==
  /\ \A i \in DOMAIN clickLog :
       LET c == clickLog[i]
       IN  /\ c.k = 0 => c.list = "submit" /\ c.seen[c.list] = {}
           /\ c.k # 0 =>
                c.k \in c.seen[c.list] /\ \A j \in c.seen[c.list] : c.k <= j
           /\ \A j \in DOMAIN clickLog :
                (j # i /\ clickLog[j].round = c.round) => clickLog[j].list # c.list
  /\ foundAt # 0 =>
       \E k \in DOMAIN TotpInputSelectors :
         /\ First(k, inputs) = foundAt
         /\ \A j \in 1 .. (k - 1) :
              First(j, inputs) = 0 \/ ~inputs[First(j, inputs)].visible

\* C25, amended: as above, but the input findFirstTotpInput returned is the
\* target of the first selector whose target is visible and passes
\* isLikelyTotpInput.
C25_FirstVisibleLikelyWins ==
  /\ \A i \in DOMAIN clickLog :
       LET c == clickLog[i]
       IN  /\ c.k = 0 => c.list = "submit" /\ c.seen[c.list] = {}
           /\ c.k # 0 =>
                c.k \in c.seen[c.list] /\ \A j \in c.seen[c.list] : c.k <= j
           /\ \A j \in DOMAIN clickLog :
                (j # i /\ clickLog[j].round = c.round) => clickLog[j].list # c.list
  /\ foundAt # 0 =>
       \E k \in DOMAIN TotpInputSelectors :
         /\ First(k, inputs) = foundAt
         /\ \A j \in 1 .. (k - 1) :
              \/ First(j, inputs) = 0
              \/ ~inputs[First(j, inputs)].visible
              \/ ~IsLikelyTotpInput(inputs[First(j, inputs)],
                                    TotpInputSelectors[j], heading)

\* C25 witness: the second of two visible "other options" controls was left
\* alone, the first of two visible submit controls was resolved, and the
\* code input of a later selector was returned past a visible password field.
C25_EarlierControlsChosen ==
  /\ iPc = "submitted" /\ Len(clickLog) = 2
  /\ clickLog[1].list = "altOptions" /\ clickLog[1].k = 2
  /\ 7 \in clickLog[1].seen.altOptions
  /\ clickLog[2].list = "submit" /\ clickLog[2].k = 5
  /\ 9 \in clickLog[2].seen.submit
  /\ foundAt = 2 /\ inputs[1].visible /\ inputs[1].name = Lit.otc

\* C26, as stated: a second call of ensureTotpInput on the page the first
\* call left returns what the first call returned, and so does the
\* findFirstTotpInput it starts with.
C26_SecondCallSame ==
  prevCall # << >> =>
    /\ (clickLog = << >> /\ iPc \in { "loop", "returned" })
         => foundSel = prevCall[Len(prevCall)].sel
    /\ iPc = "returned" => foundSel = prevCall[Len(prevCall)].sel

\* C26, amended: the same, for ensureTotpInput unless the first call
\* returned none after it had clicked a disclosure control.
C26_SecondCallSameUnlessRevealed ==
  prevCall # << >> =>
    LET prev == prevCall[Len(prevCall)]
    IN  /\ (iPc = "loop" /\ round = 1 /\ clickLog = << >>)
             => prev.sel = << >>
        /\ (iPc = "returned" /\ round = 0) => foundSel = prev.sel
        /\ (iPc = "returned" /\ (prev.sel # << >> \/ prev.clicks = 0))
             => foundSel = prev.sel

\* C26 witness: the first call revealed the input with a click, and the
\* second call returned the same selector.
C26_RevealedThenSame ==
  /\ prevCall # << >> /\ prevCall[1].clicks > 0 /\ prevCall[1].sel # << >>
  /\ iPc = "returned" /\ foundSel = prevCall[1].sel /\ clickLog = << >>

\* C27: ensureTotpInput runs at most 4 rounds, clicks at most one control
\* in a round, a "use a code" control only when no "other options" control
\* is visible, goes on only while no qualifying input is visible and the last
\* round clicked, and returns none only with no qualifying input in sight.
C27_RevealBounded ==
  iPc \in { "loop", "returned" } =>
    /\ round <= EnsureAttempts
    /\ \A i \in DOMAIN clickLog :
         /\ clickLog[i].round = i
         /\ clickLog[i].list \in { "altOptions", "challenge" }
         /\ clickLog[i].list = "challenge"
              => clickLog[i].seen.altOptions = {}
    /\ iPc = "loop" =>
         /\ Len(clickLog) = round - 1
         /\ FindFirstTotpInput(inputs, heading) = NoInput
    /\ iPc = "returned" =>
         /\ round > 0 => Len(clickLog) \in { round - 1, round }
         /\ round = 0 => clickLog = << >> /\ foundAt # 0
         /\ foundAt # 0 => foundSel # << >>
         /\ foundAt = 0 =>
              /\ foundSel = << >>
              /\ FindFirstTotpInput(inputs, heading) = NoInput
              /\ Len(clickLog) = round - 1 \/ round = EnsureAttempts

\* C27 witness: four rounds clicked a control each, no input came into sight
\* and none was returned.
C27_FourRoundsInVain ==
  /\ iPc = "returned" /\ round = EnsureAttempts
  /\ Len(clickLog) = EnsureAttempts
  /\ foundAt = 0 /\ foundSel = << >>

\* ------------------------------------------ properties: code generation
\* C30, as stated: when generateTOTP failed in a tryAutoTotp invocation, that
\* invocation ended with a thrown error and did not return true.
C30_CodegenFailureSurfaces ==
  (obs.codegen /\ tPc = "done") =>
    /\ obs.tries # << >>
    /\ obs.tries[Len(obs.tries)].err # NoError
    /\ ~obs.tries[Len(obs.tries)].ret

C29_SolvedOrDeadline ==
  /\ cObs.captchaWait \in { "none", "pending", "solved", "timeout" }
  /\ cObs.captchaWait = "timeout" => cPc = "returned" /\ cResult = Null

C32_OneKeystrokePerCharacter ==
  /\ [](/\ Len(tyKeys) <= Len(tyText)
        /\ tyKeys = SubSeq(tyText, 1, Len(tyKeys))
        /\ tyI <= Len(tyText)
        /\ tyPc = "done" => tyKeys = tyText)
  /\ [](tyPc = "clear" => <>(tyPc = "done"))

\* C32 witness: a six-character text was typed with a burst of three, no
\* keystroke worked, and all six keystrokes were issued.
C32_AllIssuedNoneWorked ==
  /\ tyPc = "done" /\ Len(tyText) = MaxTextLen
  /\ tyKeys = tyText /\ tyField = << >>

\* ------------------------------------------------ properties: typeEmail
\* C33: when typeEmail has returned for an address local@domain and every
\* keystroke worked, the characters entered since the field was last cleared
\* are the whole address.
C33_WholeAddressEntered ==
  ( /\ emPc = "done" /\ emOk
    /\ Len(SplitAt(emEmail)) = 2
    /\ LocalPart(emEmail) # << >> /\ Domain(emEmail) # << >> )
    => emSince = emEmail

\* ------------------------------------------ properties: counted attempts
\* C34, as stated: tryAutoTotp has counted an attempt and started the throttle
\* window (lines 110-111), and returns true, only if the same invocation typed
\* a code and issued a submit action.
C34_CountedOnlyIfSubmitted ==
  /\ tPc = "try_wait" => obs.subs > 0
  /\ \A i \in DOMAIN obs.tries : obs.tries[i].ret => obs.tries[i].typed

\* ------------------------------------------ properties: attempt counter
\* C35: with calls that do not overlap, totpAttempts is always between 0 and
\* 3; it goes up only in the bookkeeping of tryAutoTotp (line 110), by one,
\* and it goes down only in reset() or setTotpSecret(), to 0.
C35_AttemptCounterBounded ==
  /\ [](totpAttempts \in 0 .. MaxTotpAttempts)
  /\ [][ /\ totpAttempts' > totpAttempts =>
              (tPc = "try_book" /\ totpAttempts' = totpAttempts + 1)
         /\ totpAttempts' < totpAttempts =>
              (Idle /\ tOp' = tOp /\ totpAttempts' = 0 /\ resetSince') ]_vars

\* C35 witness: the third attempt has just been counted after a submission.
C35_ThirdAttemptCounted ==
  tPc = "try_wait" /\ totpAttempts = MaxTotpAttempts /\ obs.subs = 1

\* ------------------------------------------ properties: calls without effect
\* C36: the step in which a tryAutoTotp invocation returns false leaves
\* totpAttempts as it is and does not stamp lastTotpSubmit, and no such
\* invocation passed the bookkeeping of lines 110-111; when the reason is a
\* missing secret or the throttle window, the invocation returns from its
\* entry, before ensureTotpInput is called, and the page is as it was; and a
\* call of reset() leaves currentTotpSecret as it is.
C36_FalseReturnChangesNothing ==
  [][ /\ ( /\ obs'.tries # obs.tries /\ obs'.tries # << >>
           /\ ~obs'.tries[Len(obs'.tries)].ret
           /\ obs'.tries[Len(obs'.tries)].err = NoError ) =>
          /\ totpAttempts' = totpAttempts
          /\ sinceTotpSubmit' >= sinceTotpSubmit
          /\ tPc \notin { "try_submit", "try_book", "try_wait" }
          /\ ( \/ ~obs'.tries[Len(obs'.tries)].hasSecret
               \/ obs'.tries[Len(obs'.tries)].throttled ) =>
                 (tPc # "try_ensure" /\ UNCHANGED page)
      /\ (Idle /\ obs' = [ obs EXCEPT !.resetMark = ~@ ]) =>
           UNCHANGED currentTotpSecret ]_vars

\* C36 witness: after two submissions, both counted, a tryAutoTotp
\* invocation has returned false inside the throttle window.
C36_ThrottledReturn ==
  /\ tPc = "done" /\ Len(obs.tries) = 1
  /\ obs.tries[1].throttled /\ ~obs.tries[1].ret
  /\ totpAttempts = 2 /\ sinceTotpSubmit < throttleMs /\ realSubs = 2

\* ------------------------------------------ properties: overlapping calls
\* C37, as stated: when one tryAutoTotp invocation starts while the other is
\* suspended at a page call, at most one of the two submits a code, and
\* totpAttempts never exceeds 3.
C37_OverlapSubmitsOnce ==
  /\ oAttempts <= MaxTotpAttempts
  /\ oOverlap => ~(\A p \in Invocations : oSubmitted[p])

\* ------------------------------------------ properties: identifier taken
\* C38, as stated: when handleEmailTaken has reported success with an
\* identifier (the suggested one or a newly generated one), no identifier
\* error indicator is visible on the page.
C38_SuccessOnlyWithoutError ==
  (ident.via \in { "taken", "suggestion" } /\ ident.result # << >>) =>
    idError \in { "none", "passwordInfo" }

\* ------------------------------------------ properties: report rate limit
\* C39: for each client IP at most 10 requests are let through between the
\* request that opens a window and the window's reset time; a request answered
\* 429 leaves the dedupe cache, the webhook and the IP's count and reset time
\* untouched; and a request changes the record of no other IP.
C39_TenPerWindow ==
  /\ [](\A ip \in Ips :
          /\ rAdmitted[ip] <= RATE_LIMIT_MAX_REQUESTS
          /\ rateLimitMap[ip].left <= RATE_LIMIT_WINDOW_MS)
  /\ [][ rTicks' = rTicks =>
           /\ rResp'.status = 429 =>
                /\ UNCHANGED << rateLimitMap, errorCache, rDelivered >>
                /\ ~rResp'.posted /\ ~rResp'.duplicate
           /\ \A ip \in Ips \ { rResp'.ip } :
                rateLimitMap'[ip] = rateLimitMap[ip] ]_vars

\* C39 witness: the eleventh request of one address inside its window was
\* answered 429 at the window's reset time, while the other address has a
\* window of its own with three requests.
C39_EleventhRefused ==
  /\ rResp.status = 429 /\ rResp.ip = "1.1.1.1"
  /\ rAdmitted["1.1.1.1"] = RATE_LIMIT_MAX_REQUESTS
  /\ rateLimitMap["1.1.1.1"].left = 0
  /\ rateLimitMap["unknown"].count = 3

\* ------------------------------------------ properties: report dedupe
\* C40, as stated: a report is answered as a suppressed duplicate only if a
\* report with the same error id was delivered to the webhook within the hour
\* before it.
C40_DuplicateOnlyAfterDelivery ==
  rResp.duplicate =>
    (rDelivered[rResp.id] # -1 /\ rDelivered[rResp.id] <= ERROR_TTL_MS)

=============================================================================
